---- MODULE Spec2Model ----
(***************************************************************************)
(* A model of the conference control plane's backend orchestration:        *)
(*   - the janus event handlers (WebRtcUp, HangUp, Detached, status),      *)
(*   - the upload-stream response handlers and the vacuum sweep,           *)
(*   - the transaction token carried by outbound janus requests.           *)
(* Handlers are pure operators from the database (a record of tables) and  *)
(* the incoming message to the new database, the outbound messages and the *)
(* handler's result; one action per handler applies them.                  *)
(***************************************************************************)
EXTENDS Integers, Sequences, FiniteSets, TLC

VARIABLES
  now,        \* the clock
  db,         \* the database: a record of tables
  pre,        \* the database the last handler started from
  lastEv,     \* the last handled message, with the time of its handling
  lastOut,    \* the messages the last handler returned for publishing
  lastSent,   \* the requests the last handler sent to a backend's client
  lastResult, \* the last handler's result: "ok" or the error kind
  issued,     \* the outbound janus requests awaiting a response
  resolved,   \* the transaction decoded from the last response
  sweeps,     \* the orphaned-room sweeps under way, by worker
  janus_timeouts, \* the timeouts counted by the stats collector, by backend
  handle_pool, \* the warm-up tasks of the handle pool under way
  deliveries  \* the janus events whose handling is under way, by worker

vars ==
  <<now, db, pre, lastEv, lastOut, lastSent, lastResult, issued, resolved,
    sweeps, janus_timeouts, handle_pool, deliveries>>

(***************************************************************************)
(* Bounds of the model.                                                    *)
(***************************************************************************)
\* The clock stops ticking at MaxTime.
MaxTime == 3
\* At most MaxIssued outbound requests are kept in flight.
MaxIssued == 1

(***************************************************************************)
(* Option<T> is a sequence of length 0 (None) or 1 (Some).                 *)
(***************************************************************************)
None == <<>>

Some(x) == <<x>>

IsSome(o) == Len(o) = 1

Unwrap(o) == o[1]

(***************************************************************************)
(* The universe of the stream lifecycle model.                             *)
(***************************************************************************)
Backends == {"b1", "b2"}

Handles == {"h1", "h2"}

RoomIds == {"roomA", "roomB"}

RtcIds == {"rtc1", "rtc2", "rtc3", "rtc4"}

\* The rtcs in the order of their creation.
RtcSeq == <<"rtc1", "rtc2", "rtc3", "rtc4">>

StreamIds == {1, 2, 3}

\* rtc.room_id of every rtc row
RtcRoom == [r \in RtcIds |-> IF r = "rtc4" THEN "roomB" ELSE "roomA"]

\* The backend of each room.
RoomBackend == [r \in RoomIds |-> IF r = "roomA" THEN "b1" ELSE "b2"]

Range(seq) == {seq[i] : i \in DOMAIN seq}

(***************************************************************************)
(* A janus_rtc_stream row: time is NULL (<<>>), [start, oo) (<<s>>) or     *)
(* [start, stop) (<<s, e>>).  Rows are numbered in the order of their      *)
(* creation.                                                               *)
(***************************************************************************)
HasStart(row) == Len(row.time) >= 1

HasStop(row) == Len(row.time) = 2

\* "active" iff the row has a recorded start and no recorded stop
IsActive(row) == Len(row.time) = 1

\* The ids of `ids`, the most recently created row first.
RECURSIVE MostRecentFirst(_)
MostRecentFirst(ids) ==
  IF ids = {} THEN <<>>
  ELSE LET m == CHOOSE i \in ids : \A j \in ids : j <= i
       IN <<m>> \o MostRecentFirst(ids \ {m})

Take(seq, n) == IF Len(seq) <= n THEN seq ELSE SubSeq(seq, 1, n)

\* janus_rtc_stream::ListQuery with the filters backend_id, handle_id, active
\* and limit; the result holds the rows' ids.
ListQuery(streams, backend_id, handle_id, active, limit) ==
  Take(MostRecentFirst({i \in DOMAIN streams :
                          /\ streams[i].backend_id = backend_id
                          /\ streams[i].handle_id = handle_id
                          /\ IsActive(streams[i]) = active}), limit)

\* janus_rtc_stream::ListWithRtcQuery with the filters active and backend_id
ListWithRtcQuery(streams, backend_id, active) ==
  MostRecentFirst({i \in DOMAIN streams :
                     /\ streams[i].backend_id = backend_id
                     /\ IsActive(streams[i]) = active})

\* janus_rtc_stream::start: records the start time of a row that has none.
start(streams, id, t) ==
  IF HasStart(streams[id]) THEN streams
  ELSE [streams EXCEPT ![id].time = <<t>>]

\* janus_rtc_stream::stop: closes the time range of a row that has a start;
\* a row that never started keeps its NULL time.
stop(streams, id, t) ==
  IF HasStart(streams[id])
  THEN [streams EXCEPT ![id].time = <<streams[id].time[1], t>>]
  ELSE streams

\* agent_connection::BulkDisconnectByRoomQuery
BulkDisconnectByRoomQuery(conns, room_id) ==
  {c \in conns : c.room_id # room_id}

\* agent_connection::BulkDisconnectByBackendQuery
BulkDisconnectByBackendQuery(conns, backend_id) ==
  {c \in conns : c.backend_id # backend_id}

\* A row of the janus_backend table.
BackendRow(id, handle_id, session_id, capacity, balancer_capacity) ==
  [id |-> id, handle_id |-> handle_id, session_id |-> session_id,
   capacity |-> capacity, balancer_capacity |-> balancer_capacity]

\* The backends of the fixtures: one row each, without capacities.
BackendRows == {BackendRow(b, 1, 120, None, None) : b \in Backends}

\* janus_backend::UpsertQuery: the row of the backend is inserted, or
\* replaced by the new one.
UpsertQuery(backends, row) == {r \in backends : r.id # row.id} \cup {row}

\* janus_backend::DeleteQuery
DeleteQuery(backends, backend_id) == {r \in backends : r.id # backend_id}

(***************************************************************************)
(* Rooms.  A room's time is a pair of bounds, each None (unbounded) or     *)
(* Some(t).                                                                *)
(***************************************************************************)
\* check_room: "ok" or the error kind.  Only the requirements Any and Open
\* are used by the handlers below.
check_room(room, requirement, t) ==
  IF requirement = "Any" THEN "ok"
  ELSE LET opened_at == room.time[1]
           closed_at == room.time[2]
       IN IF ~IsSome(opened_at) THEN "room_closed"
          ELSE IF Unwrap(opened_at) >= t THEN "room_closed"
          ELSE IF IsSome(closed_at) /\ Unwrap(closed_at) < t THEN "room_closed"
          ELSE "ok"

\* find_room_by_rtc_id: the room of the rtc, checked against the requirement.
find_room_by_rtc_id(d, rtc_id, requirement, t) ==
  LET room_id == RtcRoom[rtc_id]
  IN [id |-> room_id, check |-> check_room(d.room[room_id], requirement, t)]

\* endpoint::rtc_stream::update_event: the rtc_stream.update event on the
\* room's topic, carrying the stream object.
update_event(room_id, id, row) ==
  [label |-> "rtc_stream.update", room_id |-> room_id,
   stream |-> id, time |-> row.time]

(***************************************************************************)
(* The janus event handlers.  Each yields the new database, the messages   *)
(* of the returned stream and the result ("ok" or the error kind).         *)
(***************************************************************************)
Outcome(d, out, result) ==
  [db |-> d, out |-> out, sent |-> <<>>, result |-> result]

\* An error result reaches handle_event, which logs it and returns an empty
\* stream: what was committed before the error stays committed.
Failed(d, kind) == Outcome(d, <<>>, kind)

find_rtc_stream_MutAnyHandle(streams, backend_id, handle_id) ==
  LET rows == MostRecentFirst({i \in DOMAIN streams :
                                 /\ streams[i].backend_id = backend_id
                                 /\ ~IsActive(streams[i])})
  IN IF rows = <<>> THEN None ELSE Some(rows[1])

find_rtc_stream_MutAnyActivity(streams, backend_id, handle_id) ==
  LET rows == MostRecentFirst({i \in DOMAIN streams :
                                 /\ streams[i].backend_id = backend_id
                                 /\ streams[i].handle_id = handle_id})
  IN IF rows = <<>> THEN None ELSE Some(rows[1])

find_rtc_stream(streams, backend_id, handle_id) ==
  LET rtc_streams == ListQuery(streams, backend_id, handle_id, FALSE, 1)
  IN IF rtc_streams = <<>> THEN None
     ELSE Some(rtc_streams[Len(rtc_streams)])

\* handle_webrtc_up from the second statement of its transaction on: the
\* stream the lookup returned is started, then the room is looked up and
\* the event is built.
webrtc_up_write(d, id, t) ==
  LET d2 == [d EXCEPT !.stream = start(d.stream, id, t)]
      rtc_stream == d2.stream[id]
      room == find_room_by_rtc_id(d2, rtc_stream.rtc_id, "Open", t)
  IN IF room.check # "ok" THEN Failed(d2, room.check)
     ELSE Outcome(d2, <<update_event(room.id, id, rtc_stream)>>, "ok")

handle_webrtc_up(d, ev, t) ==
  LET found == find_rtc_stream(d.stream, ev.backend_id, ev.handle_id)
  IN IF ~IsSome(found) THEN Outcome(d, <<>>, "ok")
     ELSE webrtc_up_write(d, Unwrap(found), t)

\* handle_hangup_detach from the second statement of its transaction on:
\* the stream the lookup returned is stopped, then the room is looked up,
\* and for a stream with a time the agents are disconnected and the event
\* is built.
hangup_detach_write(d, id, t) ==
  LET d2 == [d EXCEPT !.stream = stop(d.stream, id, t)]
      rtc_stream == d2.stream[id]
      room == find_room_by_rtc_id(d2, rtc_stream.rtc_id, "Open", t)
  IN IF room.check # "ok" THEN Failed(d2, room.check)
     ELSE IF HasStart(rtc_stream)
     THEN Outcome(
            [d2 EXCEPT !.agent_connection =
               BulkDisconnectByRoomQuery(d2.agent_connection, room.id)],
            <<update_event(room.id, id, rtc_stream)>>, "ok")
     ELSE Outcome(d2, <<>>, "ok")

handle_hangup_detach(d, ev, t) ==
  LET found == find_rtc_stream(d.stream, ev.backend_id, ev.handle_id)
  IN IF ~IsSome(found) THEN Outcome(d, <<>>, "ok")
     ELSE hangup_detach_write(d, Unwrap(found), t)

\* The events of the offline branch: one per listed stream, built from the
\* in-memory copy of the row whose time range is closed at t.
RECURSIVE OfflineEvents(_, _, _)
OfflineEvents(streams, ids, t) ==
  IF ids = <<>> THEN <<>>
  ELSE LET id == Head(ids)
           row == streams[id]
           closed == [row EXCEPT !.time = IF HasStart(row)
                                           THEN <<row.time[1], t>>
                                           ELSE row.time]
       IN <<update_event(RtcRoom[row.rtc_id], id, closed)>>
          \o OfflineEvents(streams, Tail(ids), t)

\* Client::create_session_request: the request with the CreateSession
\* transaction, which holds the capacities of the status event.
create_session_request(payload, backend_id) ==
  [label |-> "janus_session.create", to |-> backend_id,
   transaction |-> [tag |-> "CreateSession", session_id |-> None,
                    capacity |-> payload.capacity,
                    balancer_capacity |-> payload.balancer_capacity]]

handle_status_event_impl_MutAllStreams(d, ev, t) ==
  IF ev.online
  THEN Outcome(d, <<create_session_request(ev, ev.backend_id)>>, "ok")
  ELSE LET streams_with_rtc ==
             MostRecentFirst({i \in DOMAIN d.stream :
                                d.stream[i].backend_id = ev.backend_id})
           d2 == [d EXCEPT
                    !.agent_connection =
                       BulkDisconnectByBackendQuery(@, ev.backend_id),
                    !.janus_backend = DeleteQuery(@, ev.backend_id)]
       IN Outcome(d2, OfflineEvents(d.stream, streams_with_rtc, t), "ok")

\* The statements of the closure of the offline branch, run in order until
\* one of them fails (failure names it, "none" for none): the database as
\* the statements that ran leave it, the listed streams and the error.
offline_statements(d, backend_id, failure) ==
  LET d1 == [d EXCEPT !.agent_connection =
                         BulkDisconnectByBackendQuery(@, backend_id)]
      d2 == [d1 EXCEPT !.janus_backend = DeleteQuery(@, backend_id)]
  IN CASE failure = "list" -> [db |-> d, value |-> <<>>, err |-> "db_query_failed"]
       [] failure = "disconnect" ->
            [db |-> d, value |-> <<>>, err |-> "db_query_failed"]
       [] failure = "delete" ->
            [db |-> d1, value |-> <<>>, err |-> "db_query_failed"]
       [] OTHER ->
            [db |-> d2, value |-> ListWithRtcQuery(d.stream, backend_id, TRUE),
             err |-> "ok"]

conn_transaction_MutNoRollback(d, closure) == closure

\* conn.transaction: the writes of the closure are committed when it
\* returns Ok and rolled back when it returns Err.
conn_transaction(d, closure) ==
  IF closure.err = "ok" THEN closure ELSE [closure EXCEPT !.db = d]

handle_status_event_impl(d, ev, t) ==
  IF ev.online
  THEN Outcome(d, <<create_session_request(ev, ev.backend_id)>>, "ok")
  ELSE LET streams_with_rtc ==
             conn_transaction(d, offline_statements(d, ev.backend_id, ev.failure))
       IN IF streams_with_rtc.err # "ok"
          THEN Failed(streams_with_rtc.db, streams_with_rtc.err)
          ELSE Outcome(streams_with_rtc.db,
                       OfflineEvents(d.stream, streams_with_rtc.value, t),
                       "ok")

\* handle_event_impl: the dispatch on the kind of the janus event.
handle_event_impl(d, ev, t) ==
  CASE ev.kind = "WebRtcUp" -> handle_webrtc_up(d, ev, t)
    [] ev.kind \in {"HangUp", "Detached"} -> handle_hangup_detach(d, ev, t)
    [] OTHER -> Outcome(d, <<>>, "ok")

(***************************************************************************)
(* Uploading of recordings.  A recording row is keyed by the rtc id; its   *)
(* status is "in_progress", "ready" or "missing".  A response of a backend *)
(* to an upload request reaches the service on two paths: as the return    *)
(* value of the client's upload_stream in VacuumHandler::handle, and as an *)
(* UploadStream transaction's event in handle_response_impl.               *)
(***************************************************************************)
\* InsertQuery::new: a recording without a start and segments.
NewRecording(status) ==
  [status |-> status, started_at |-> None, segments |-> None,
   mjr_dumps_uris |-> None]

\* recording::UpdateQuery::new(rtc_id).status(..)...execute: the row of the
\* rtc takes the status and the fields of the query that are set.
UpdateQuery(recordings, rtc_id, status, started_at, segments, mjr_dumps_uris) ==
  IF ~IsSome(recordings[rtc_id]) THEN recordings
  ELSE LET old == Unwrap(recordings[rtc_id])
           new == [status |-> status,
                   started_at |-> IF IsSome(started_at) THEN started_at
                                  ELSE old.started_at,
                   segments |-> IF IsSome(segments) THEN segments
                                ELSE old.segments,
                   mjr_dumps_uris |-> IF IsSome(mjr_dumps_uris)
                                      THEN mjr_dumps_uris
                                      ELSE old.mjr_dumps_uris]
       IN [recordings EXCEPT ![rtc_id] = Some(new)]

\* rtc::ListWithRecordingQuery::new(room_id): the rtcs of the room in the
\* order of their creation, each with its recording if it has one.
ListWithRecordingQuery(d, room_id) ==
  SelectSeq(RtcSeq, LAMBDA r : RtcRoom[r] = room_id)

\* db::room::finished_with_in_progress_recordings: the in_progress
\* recordings of the rooms whose closing time has passed.
finished_with_in_progress_recordings(d, t) ==
  SelectSeq(RtcSeq,
    LAMBDA r : /\ IsSome(d.recording[r])
               /\ Unwrap(d.recording[r]).status = "in_progress"
               /\ LET closed_at == d.room[RtcRoom[r]].time[2]
                  IN IsSome(closed_at) /\ Unwrap(closed_at) < t)

\* db::agent::DeleteQuery::new().room_id(room_id)
AgentDeleteQuery(agents, room_id) == {a \in agents : a.room_id # room_id}

\* context.config().upload: the upload configurations of the shared and of
\* the owned rooms, by audience.
UploadConfigs ==
  [Shared |-> [aud |-> [bucket |-> "origin.webinar", backend |-> "yandex"]],
   Owned |-> [aud |-> [bucket |-> "origin.minigroup", backend |-> "yandex"]]]

Ok(value) == [err |-> "ok", value |-> value]
Err(kind) == [err |-> kind, value |-> None]

\* upload_config
upload_config(room) ==
  IF room.rtc_sharing_policy = "None" THEN Err("not_implemented")
  ELSE LET config == UploadConfigs[room.rtc_sharing_policy]
       IN IF room.audience \in DOMAIN config THEN Ok(config[room.audience])
          ELSE Err("config_key_missing")

record_name_MutAlwaysPrefix(rtc_id, room) ==
  LET prefix == IF IsSome(room.classroom_id)
                THEN <<Unwrap(room.classroom_id), "/">>
                ELSE <<>>
  IN prefix \o <<rtc_id, ".source.webm">>

\* record_name: "<classroom_id>/" for an owned room of a classroom, then
\* "<rtc_id>.source.webm"; the name is kept as the sequence of its parts.
record_name(rtc_id, room) ==
  LET prefix == IF room.rtc_sharing_policy = "Owned" /\ IsSome(room.classroom_id)
                THEN <<Unwrap(room.classroom_id), "/">>
                ELSE <<>>
  IN prefix \o <<rtc_id, ".source.webm">>

RECURSIVE event_entries_MutUriForMissing(_, _, _)
event_entries_MutUriForMissing(d, room, rtcs) ==
  IF rtcs = <<>> THEN Ok(<<>>)
  ELSE LET rtc_id == Head(rtcs)
           recording == Unwrap(d.recording[rtc_id])
           config == upload_config(room)
           uri == Some(<<"s3://", config.value.bucket, "/">>
                       \o record_name(rtc_id, room))
           entry == [id |-> rtc_id, status |-> recording.status, uri |-> uri,
                     mjr_dumps_uris |-> recording.mjr_dumps_uris]
           rest == event_entries_MutUriForMissing(d, room, Tail(rtcs))
       IN IF recording.status = "in_progress"
          THEN Err("message_building_failed")
          ELSE IF config.err # "ok" THEN Err(config.err)
          ELSE IF rest.err # "ok" THEN rest
          ELSE Ok(<<entry>> \o rest.value)

\* The entries of upload_event for a sequence of rtcs with recordings, or
\* the error the loop returns with.
RECURSIVE event_entries(_, _, _)
event_entries(d, room, rtcs) ==
  IF rtcs = <<>> THEN Ok(<<>>)
  ELSE LET rtc_id == Head(rtcs)
           recording == Unwrap(d.recording[rtc_id])
           config == upload_config(room)
           uri == IF recording.status = "missing" THEN None
                  ELSE Some(<<"s3://", config.value.bucket, "/">>
                            \o record_name(rtc_id, room))
           entry == [id |-> rtc_id, status |-> recording.status, uri |-> uri,
                     mjr_dumps_uris |-> recording.mjr_dumps_uris]
           rest == event_entries(d, room, Tail(rtcs))
       IN IF recording.status = "in_progress"
          THEN Err("message_building_failed")
          ELSE IF recording.status = "ready" /\ config.err # "ok"
          THEN Err(config.err)
          ELSE IF rest.err # "ok" THEN rest
          ELSE Ok(<<entry>> \o rest.value)

\* upload_event: the room.upload event of a room for the given recordings.
upload_event(d, room_id, rtcs) ==
  LET entries == event_entries(d, d.room[room_id], rtcs)
  IN IF entries.err # "ok" THEN entries
     ELSE Ok([label |-> "room.upload", room_id |-> room_id,
              to |-> <<"audiences/", d.room[room_id].audience, "/events">>,
              rtcs |-> entries.value])

\* A rtc of the list has no recording.
HasNoRecording(d, rtc_id) == ~IsSome(d.recording[rtc_id])

room_done_MutAnyStatus(d, rtcs_with_recs) ==
  \A r \in Range(rtcs_with_recs) : TRUE

\* room_done of VacuumHandler::handle: every rtc of the room without a
\* recording or with a ready one.
room_done(d, rtcs_with_recs) ==
  \A r \in Range(rtcs_with_recs) :
    HasNoRecording(d, r) \/ Unwrap(d.recording[r]).status = "ready"

\* The response of a request handler: the response to the requester, then
\* the notifications and messages added to it.
Response(status, notifications) ==
  <<[label |-> "response", status |-> status]>> \o notifications

\* A request handler that returns an error: the committed database, the
\* requests already sent and the error response alone.
RequestFailed(d, kind, sent) ==
  [db |-> d, out |-> <<[label |-> "response", status |-> kind]>>,
   sent |-> sent, result |-> kind]

\* The loop of VacuumHandler::handle over the rows of the query: rows are
\* the rtcs of the recordings, janus the response of the backend to each
\* upload request.
RECURSIVE VacuumLoop(_, _, _, _, _)
VacuumLoop(rows, d, notifications, sent, janus) ==
  IF rows = <<>>
  THEN [db |-> d, out |-> Response("no_content", notifications),
        sent |-> sent, result |-> "ok"]
  ELSE
    LET id == Head(rows)
        room_id == RtcRoom[id]
        room == d.room[room_id]
        d1 == [d EXCEPT !.agent = AgentDeleteQuery(@, room_id)]
        config == upload_config(room)
        request == [label |-> "stream.upload", id |-> id,
                    backend_id |-> RoomBackend[room_id],
                    backend |-> config.value.backend,
                    bucket |-> config.value.bucket]
        closed == Append(notifications,
                         [label |-> "room.close", room_id |-> room_id])
        sent1 == Append(sent, request)
    IN IF config.err # "ok" THEN RequestFailed(d1, config.err, sent)
       ELSE IF janus[id] = "ClientError"
       THEN RequestFailed(d1, "backend_client_creation_failed", sent)
       ELSE IF janus[id] = "Error"
       THEN RequestFailed(d1, "backend_request_failed", sent1)
       ELSE IF janus[id] = "Missing"
       THEN VacuumLoop(Tail(rows),
              [d1 EXCEPT !.recording =
                 UpdateQuery(@, id, "missing", None, None, None)],
              closed, sent1, janus)
       ELSE IF janus[id] = "AlreadyRunning"
       THEN VacuumLoop(Tail(rows), d1, closed, sent1, janus)
       ELSE
         LET d2 == [d1 EXCEPT !.recording =
                      UpdateQuery(@, id, "ready", None, None,
                                  Some(<<"dump", id>>))]
             rtcs_with_recs == ListWithRecordingQuery(d2, room_id)
             recs_with_rtcs ==
               SelectSeq(rtcs_with_recs,
                 LAMBDA r : /\ ~HasNoRecording(d2, r)
                            /\ Unwrap(d2.recording[r]).status = "ready")
             event == upload_event(d2, room_id, recs_with_rtcs)
         IN IF ~room_done(d2, rtcs_with_recs)
            THEN VacuumLoop(Tail(rows), d2, closed, sent1, janus)
            ELSE IF event.err # "ok"
            THEN RequestFailed(d2, event.err, sent1)
            ELSE VacuumLoop(Tail(rows), d2, Append(closed, event.value),
                            sent1, janus)

VacuumHandler_MutNoAuthz(d, req, t) ==
  VacuumLoop(finished_with_in_progress_recordings(d, t), d, <<>>, <<>>,
             req.janus)

\* VacuumHandler::handle
VacuumHandler(d, req, t) ==
  IF ~req.authorized THEN RequestFailed(d, "access_denied", <<>>)
  ELSE VacuumLoop(finished_with_in_progress_recordings(d, t), d, <<>>, <<>>,
                  req.janus)

handle_upload_stream_event_MutNoAlreadyRunning(d, resp, t) ==
  IF resp.status = "404"
  THEN Failed([d EXCEPT !.recording =
                 UpdateQuery(@, resp.rtc_id, "missing", None, None, None)],
              "backend_recording_missing")
  ELSE IF resp.status # "200" THEN Failed(d, "backend_request_failed")
  ELSE
    LET rtc_id == resp.rtc_id
        room_id == RtcRoom[rtc_id]
        d2 == [d EXCEPT !.recording =
                 UpdateQuery(@, rtc_id, "ready", Some(resp.started_at),
                             Some(resp.time), None)]
        rtcs_with_recs == ListWithRecordingQuery(d2, room_id)
        recs_with_rtcs ==
          SelectSeq(rtcs_with_recs, LAMBDA r : ~HasNoRecording(d2, r))
        event == upload_event(d2, room_id, recs_with_rtcs)
    IN IF Len(recs_with_rtcs) < Len(rtcs_with_recs)
       THEN Outcome(d2, <<>>, "ok")
       ELSE IF event.err # "ok" THEN Failed(d2, event.err)
       ELSE Outcome(d2, <<event.value>>, "ok")

\* handle_response_impl for the event of an UploadStream transaction; an
\* error of the handler is logged and leaves an empty message stream.
\* The first statement of the confirmation of a finished upload: the
\* recording is marked ready, with the fields of the response.
upload_done_update(d, resp) ==
  [d EXCEPT !.recording =
     UpdateQuery(@, resp.rtc_id, "ready", Some(resp.started_at),
                 Some(resp.time), None)]

\* The rest of the confirmation, on the database d2 it reads: the rtcs of
\* the room are listed with their recordings and the event is built.
upload_done_event(d2, resp) ==
  LET room_id == RtcRoom[resp.rtc_id]
      rtcs_with_recs == ListWithRecordingQuery(d2, room_id)
      recs_with_rtcs ==
        SelectSeq(rtcs_with_recs, LAMBDA r : ~HasNoRecording(d2, r))
      event == upload_event(d2, room_id, recs_with_rtcs)
  IN IF Len(recs_with_rtcs) < Len(rtcs_with_recs)
     THEN Outcome(d2, <<>>, "ok")
     ELSE IF event.err # "ok" THEN Failed(d2, event.err)
     ELSE Outcome(d2, <<event.value>>, "ok")

handle_upload_stream_event(d, resp, t) ==
  IF resp.status = "404"
  THEN Failed([d EXCEPT !.recording =
                 UpdateQuery(@, resp.rtc_id, "missing", None, None, None)],
              "backend_recording_missing")
  ELSE IF resp.status # "200" THEN Failed(d, "backend_request_failed")
  ELSE IF resp.state = "already_running" THEN Outcome(d, <<>>, "ok")
  ELSE upload_done_event(upload_done_update(d, resp), resp)

(***************************************************************************)
(* Transactions.  A transaction travels to the backend and back as the     *)
(* token of the request: the base64 text of the serialized transaction.    *)
(* Texts are sequences of character codes, a token is the sequence of its  *)
(* base64 digits (0..63, and Pad for '=').                                 *)
(***************************************************************************)
Pad == 64

RECURSIVE Digits(_)
Digits(n) ==
  IF n < 10 THEN <<48 + n>> ELSE Digits(n \div 10) \o <<48 + (n % 10)>>

\* The decimal text of an integer.
itoa(n) == IF n < 0 THEN <<45>> \o Digits(-n) ELSE Digits(n)

RECURSIVE Number(_)
Number(s) ==
  IF s = <<>> THEN 0
  ELSE 10 * Number(SubSeq(s, 1, Len(s) - 1)) + (s[Len(s)] - 48)

\* The integer of a decimal text.
atoi(s) == IF s[1] = 45 THEN -Number(Tail(s)) ELSE Number(s)

IsNumber(s) ==
  LET digits == IF s # <<>> /\ s[1] = 45 THEN Tail(s) ELSE s
  IN digits # <<>> /\ \A i \in DOMAIN digits : digits[i] \in 48..57

\* A string between quotes, its quotes and backslashes escaped.
RECURSIVE Escaped(_)
Escaped(s) ==
  IF s = <<>> THEN <<>>
  ELSE (IF Head(s) \in {34, 92} THEN <<92, Head(s)>> ELSE <<Head(s)>>)
       \o Escaped(Tail(s))

Quoted(s) == <<34>> \o Escaped(s) \o <<34>>

RECURSIVE Unescaped(_)
Unescaped(s) ==
  IF s = <<>> THEN <<>>
  ELSE IF Head(s) = 92 /\ Len(s) >= 2
       THEN <<s[2]>> \o Unescaped(SubSeq(s, 3, Len(s)))
       ELSE <<Head(s)>> \o Unescaped(Tail(s))

IsQuoted(s) == Len(s) >= 2 /\ s[1] = 34 /\ s[Len(s)] = 34

Unquoted(s) == Unescaped(SubSeq(s, 2, Len(s) - 1))

Null == <<110, 117, 108, 108>>

\* The names of the variants of Transaction.
VariantName ==
  [CreateHandle |-> <<67, 114, 101, 97, 116, 101, 72, 97, 110, 100, 108, 101>>]

\* The serialized transaction: the name of the variant and the fields of
\* its data, between brackets and separated by commas.
serialize(transaction) ==
  LET data == transaction.data
      OptionalNumber(o) == IF IsSome(o) THEN itoa(Unwrap(o)) ELSE Null
      OptionalString(o) == IF IsSome(o) THEN Quoted(Unwrap(o)) ELSE Null
  IN <<91>> \o Quoted(VariantName[transaction.tag]) \o <<44>>
     \o itoa(data.session_id) \o <<44>>
     \o OptionalNumber(data.capacity) \o <<44>>
     \o OptionalNumber(data.balancer_capacity) \o <<44>>
     \o OptionalString(data.group) \o <<44>>
     \o OptionalString(data.janus_url) \o <<93>>

\* The fields of a serialized text from position i: the commas outside of
\* the strings separate them.
RECURSIVE Fields(_, _, _, _)
Fields(s, i, field, quoted) ==
  IF i > Len(s) THEN <<field>>
  ELSE IF quoted /\ s[i] = 92 /\ i < Len(s)
  THEN Fields(s, i + 2, field \o <<s[i], s[i + 1]>>, quoted)
  ELSE IF s[i] = 34 THEN Fields(s, i + 1, Append(field, s[i]), ~quoted)
  ELSE IF s[i] = 44 /\ ~quoted
  THEN <<field>> \o Fields(s, i + 1, <<>>, FALSE)
  ELSE Fields(s, i + 1, Append(field, s[i]), quoted)

\* The transaction of a serialized text, or None for a text that is not
\* the text of a transaction.
deserialize(s) ==
  IF Len(s) < 2 \/ s[1] # 91 \/ s[Len(s)] # 93 THEN None
  ELSE
    LET fields == Fields(SubSeq(s, 2, Len(s) - 1), 1, <<>>, FALSE)
        IsOptionalNumber(f) == f = Null \/ IsNumber(f)
        IsOptionalString(f) == f = Null \/ IsQuoted(f)
        OptionalNumber(f) == IF f = Null THEN None ELSE Some(atoi(f))
        OptionalString(f) == IF f = Null THEN None ELSE Some(Unquoted(f))
    IN IF \/ Len(fields) # 6
          \/ fields[1] # Quoted(VariantName.CreateHandle)
          \/ ~IsNumber(fields[2])
          \/ ~IsOptionalNumber(fields[3]) \/ ~IsOptionalNumber(fields[4])
          \/ ~IsOptionalString(fields[5]) \/ ~IsOptionalString(fields[6])
       THEN None
       ELSE Some([tag |-> "CreateHandle",
                  data |-> [session_id |-> atoi(fields[2]),
                            capacity |-> OptionalNumber(fields[3]),
                            balancer_capacity |-> OptionalNumber(fields[4]),
                            group |-> OptionalString(fields[5]),
                            janus_url |-> OptionalString(fields[6])]])

\* The base64 digits of a sequence of bytes.
RECURSIVE base64_encode(_)
base64_encode(b) ==
  IF b = <<>> THEN <<>>
  ELSE IF Len(b) = 1
  THEN <<b[1] \div 4, (b[1] % 4) * 16, Pad, Pad>>
  ELSE IF Len(b) = 2
  THEN <<b[1] \div 4, (b[1] % 4) * 16 + b[2] \div 16, (b[2] % 16) * 4, Pad>>
  ELSE <<b[1] \div 4, (b[1] % 4) * 16 + b[2] \div 16,
         (b[2] % 16) * 4 + b[3] \div 64, b[3] % 64>>
       \o base64_encode(SubSeq(b, 4, Len(b)))

\* The bytes of a sequence of base64 digits whose length is a multiple of 4.
RECURSIVE base64_decode(_)
base64_decode(s) ==
  IF s = <<>> THEN <<>>
  ELSE LET first == <<s[1] * 4 + s[2] \div 16>>
           second == <<(s[2] % 16) * 16 + s[3] \div 4>>
           third == <<(s[3] % 4) * 64 + s[4]>>
       IN IF s[3] = Pad THEN first
          ELSE IF s[4] = Pad THEN first \o second
          ELSE first \o second \o third \o base64_decode(SubSeq(s, 5, Len(s)))

\* util::to_base64: the token of a transaction.
to_base64(transaction) == base64_encode(serialize(transaction))

\* util::from_base64: the transaction of a token, or None for a token that
\* does not decode.
from_base64(token) ==
  IF Len(token) % 4 # 0 THEN None ELSE deserialize(base64_decode(token))

\* TransactionData::new
TransactionData(session_id) ==
  [session_id |-> session_id, capacity |-> None, balancer_capacity |-> None,
   group |-> None, janus_url |-> None]

set_capacity(tn_data, capacity) ==
  [tn_data EXCEPT !.capacity = Some(capacity)]

set_balancer_capacity(tn_data, balancer_capacity) ==
  [tn_data EXCEPT !.balancer_capacity = Some(balancer_capacity)]

set_group(tn_data, group) == [tn_data EXCEPT !.group = Some(group)]

set_janus_url(tn_data, janus_url) ==
  [tn_data EXCEPT !.janus_url = Some(janus_url)]

create_handle_request_MutNoJanusUrl(session_id, capacity, balancer_capacity, group, janus_url) ==
  LET tn1 == IF IsSome(capacity)
             THEN set_capacity(TransactionData(session_id), Unwrap(capacity))
             ELSE TransactionData(session_id)
      tn2 == IF IsSome(balancer_capacity)
             THEN set_balancer_capacity(tn1, Unwrap(balancer_capacity))
             ELSE tn1
      tn_data == IF IsSome(group) THEN set_group(tn2, Unwrap(group)) ELSE tn2
      transaction == [tag |-> "CreateHandle", data |-> tn_data]
  IN [method |-> "janus_handle.create",
      transaction |-> to_base64(transaction),
      session_id |-> session_id,
      plugin |-> "janus.plugin.conference"]

\* Client::create_handle_request: the request with the token of the
\* CreateHandle transaction.
create_handle_request(session_id, capacity, balancer_capacity, group, janus_url) ==
  LET tn1 == IF IsSome(capacity)
             THEN set_capacity(TransactionData(session_id), Unwrap(capacity))
             ELSE TransactionData(session_id)
      tn2 == IF IsSome(balancer_capacity)
             THEN set_balancer_capacity(tn1, Unwrap(balancer_capacity))
             ELSE tn1
      tn3 == IF IsSome(group) THEN set_group(tn2, Unwrap(group)) ELSE tn2
      tn_data == IF IsSome(janus_url)
                 THEN set_janus_url(tn3, Unwrap(janus_url))
                 ELSE tn3
      transaction == [tag |-> "CreateHandle", data |-> tn_data]
  IN [method |-> "janus_handle.create",
      transaction |-> to_base64(transaction),
      session_id |-> session_id,
      plugin |-> "janus.plugin.conference"]

(***************************************************************************)
(* The responses of a backend to the signalling requests.  A response is   *)
(* an envelope (ack, success, event, or an error of a session or of a      *)
(* handle) with the token of the transaction it answers; an event carries  *)
(* the data of the plugin, with the status inside, and the answer (jsep).  *)
(* The transaction of a signalling request holds the properties of the     *)
(* request of the agent (reqp); the response below carries what            *)
(* from_base64 yields for its token: the transaction, or None for a token  *)
(* that does not decode.                                                   *)
(***************************************************************************)
\* endpoint::rtc_signal::CreateResponse::unicast: the OK response to the
\* request of the transaction, with the answer if there is one.
CreateResponse(jsep, reqp) ==
  [label |-> "response", status |-> "ok", to |-> reqp.agent_id,
   correlation_data |-> reqp.correlation_data, jsep |-> jsep]

\* handle_response_error: the error is logged and reported, and the error
\* response to the request is the one message of the stream.
handle_response_error(d, reqp, kind) ==
  Outcome(d, <<[label |-> "response", status |-> kind, to |-> reqp.agent_id,
                correlation_data |-> reqp.correlation_data, jsep |-> None]>>,
          kind)

handle_ack_MutCreateStreamAnswers(d, resp) ==
  LET txn == resp.transaction
  IN IF ~IsSome(txn) THEN Failed(d, "message_parsing_failed")
     ELSE LET tn == Unwrap(txn)
          IN IF tn.tag \in {"CreateStream", "Trickle"}
             THEN Outcome(d, <<CreateResponse(None, tn.reqp)>>, "ok")
             ELSE Outcome(d, <<>>, "ok")

\* handle_response_impl for an Ack: the ack of a Trickle is answered to the
\* agent, any other ack yields nothing.
handle_ack(d, resp) ==
  LET txn == resp.transaction
  IN IF ~IsSome(txn) THEN Failed(d, "message_parsing_failed")
     ELSE LET tn == Unwrap(txn)
          IN IF tn.tag = "CreateStream" THEN Outcome(d, <<>>, "ok")
             ELSE IF tn.tag = "Trickle"
             THEN Outcome(d, <<CreateResponse(None, tn.reqp)>>, "ok")
             ELSE Outcome(d, <<>>, "ok")

\* handle_response_impl for the Event of a CreateStream or of a ReadStream
\* transaction: missing data fails the handler itself (the ? before the
\* chain); a missing status, a status other than "200" and a missing jsep
\* go through handle_response_error; otherwise the answer is relayed.
handle_stream_event(d, resp, tn) ==
  IF ~IsSome(resp.data) THEN Failed(d, "message_parsing_failed")
  ELSE LET status == Unwrap(resp.data).status
       IN IF ~IsSome(status)
          THEN handle_response_error(d, tn.reqp, "message_parsing_failed")
          ELSE IF Unwrap(status) # "200"
          THEN handle_response_error(d, tn.reqp, "backend_request_failed")
          ELSE IF ~IsSome(resp.jsep)
          THEN handle_response_error(d, tn.reqp, "message_parsing_failed")
          ELSE Outcome(d, <<CreateResponse(resp.jsep, tn.reqp)>>, "ok")

handle_error_envelope_MutAnswers(d, resp) ==
  IF IsSome(resp.transaction)
  THEN handle_response_error(d, Unwrap(resp.transaction).reqp,
                             "message_parsing_failed")
  ELSE Failed(d, "message_parsing_failed")

\* handle_response_impl for an Error of a session or of a handle: the
\* handler fails, whatever the token.
handle_error_envelope(d, resp) == Failed(d, "message_parsing_failed")

\* handle_response_impl for the responses to signalling requests, with
\* handle_response around it: an error of the handler is logged, reported
\* and leaves an empty stream.
handle_response_impl_MutSuccessAnswers(d, resp) ==
  IF resp.envelope = "Malformed" THEN Failed(d, "message_parsing_failed")
  ELSE IF resp.envelope \in {"ErrorSession", "ErrorHandle"}
  THEN handle_error_envelope(d, resp)
  ELSE IF resp.envelope = "Ack" THEN handle_ack(d, resp)
  ELSE IF ~IsSome(resp.transaction)
  THEN Failed(d, "message_parsing_failed")
  ELSE IF resp.envelope = "Success"
  THEN Outcome(d, <<CreateResponse(None, Unwrap(resp.transaction).reqp)>>,
               "ok")
  ELSE LET tn == Unwrap(resp.transaction)
       IN IF tn.tag \in {"CreateStream", "ReadStream"}
          THEN handle_stream_event(d, resp, tn)
          ELSE Outcome(d, <<>>, "ok")

handle_response_impl(d, resp) ==
  IF resp.envelope = "Malformed" THEN Failed(d, "message_parsing_failed")
  ELSE IF resp.envelope \in {"ErrorSession", "ErrorHandle"}
  THEN handle_error_envelope(d, resp)
  ELSE IF resp.envelope = "Ack" THEN handle_ack(d, resp)
  ELSE IF ~IsSome(resp.transaction)
  THEN Failed(d, "message_parsing_failed")
  ELSE IF resp.envelope = "Success" THEN Outcome(d, <<>>, "ok")
  ELSE LET tn == Unwrap(resp.transaction)
       IN IF tn.tag \in {"CreateStream", "ReadStream"}
          THEN handle_stream_event(d, resp, tn)
          ELSE Outcome(d, <<>>, "ok")

(***************************************************************************)
(* The bootstrap of a backend.  A backend that reports itself online is    *)
(* sent a CreateSession request; the success response to it starts the     *)
(* warm-up of the handle pool as a background task and is answered with a  *)
(* CreateControlHandle request; the success response to that one writes    *)
(* the row of the backend.  Every request is registered with the client    *)
(* until its response arrives; a request past its timeout is counted by    *)
(* the stats collector.  As above, a response carries what from_base64     *)
(* yields for its token.                                                   *)
(***************************************************************************)
\* self.timeout(METHOD): the timeout of a registered request.
TransactionTimeout == 1

\* State::janus_timeouts of a collector that has counted nothing.
NoTimeouts == [b \in Backends |-> 0]

\* DynamicStatsCollector, Message::JanusTimeout: the counter of the backend
\* is incremented.
record_janus_timeout(timeouts, backend_id) ==
  [timeouts EXCEPT ![backend_id] = @ + 1]

\* Client::register_transaction: the request joins the requests in flight
\* with its deadline.
register_transaction(requests, request, t) ==
  Append(requests, [payload |-> request, deadline |-> t + TransactionTimeout,
                    timed_out |-> FALSE])

\* Client::finish_transaction: the request leaves the requests in flight.
finish_transaction(requests, i) ==
  SubSeq(requests, 1, i - 1) \o SubSeq(requests, i + 1, Len(requests))

\* Client::create_control_handle_request: the request of a handle on the
\* session, with the CreateControlHandle transaction.
create_control_handle_request(backend_id, session_id, capacity, balancer_capacity) ==
  [label |-> "janus_handle.create", to |-> backend_id,
   transaction |-> [tag |-> "CreateControlHandle",
                    session_id |-> Some(session_id),
                    capacity |-> capacity,
                    balancer_capacity |-> balancer_capacity]]

\* The outcome of a handler together with the background tasks it spawned.
Spawning(outcome, tasks) ==
  [db |-> outcome.db, out |-> outcome.out, sent |-> outcome.sent,
   result |-> outcome.result, spawned |-> tasks]

handle_success_MutNoCapacity(d, resp, pool_ok) ==
  LET txn == resp.transaction
      tn == Unwrap(txn)
  IN IF ~IsSome(txn)
     THEN Spawning(Failed(d, "message_parsing_failed"), {})
     ELSE IF tn.tag = "CreateSession"
     THEN Spawning(
            Outcome(d, <<create_control_handle_request(resp.backend_id,
                           resp.data_id, None, tn.balancer_capacity)>>, "ok"),
            {[backend_id |-> resp.backend_id, session_id |-> resp.data_id,
              pool_size |-> tn.capacity]})
     ELSE IF tn.tag = "CreateControlHandle"
     THEN Spawning(
            Outcome([d EXCEPT !.janus_backend =
                       UpsertQuery(@, BackendRow(resp.backend_id, resp.data_id,
                         Unwrap(tn.session_id), tn.capacity,
                         tn.balancer_capacity))],
                    <<>>, "ok"),
            {})
     ELSE IF tn.tag = "CreatePoolHandle"
     THEN Spawning(Outcome(d, <<>>, IF pool_ok THEN "ok"
                                    ELSE "backend_initialization_failed"), {})
     ELSE Spawning(Outcome(d, <<>>, "ok"), {})

handle_success_MutUpsertOnSession(d, resp, pool_ok) ==
  LET txn == resp.transaction
      tn == Unwrap(txn)
  IN IF ~IsSome(txn)
     THEN Spawning(Failed(d, "message_parsing_failed"), {})
     ELSE IF tn.tag = "CreateSession"
     THEN Spawning(
            Outcome([d EXCEPT !.janus_backend =
                       UpsertQuery(@, BackendRow(resp.backend_id, 0,
                         resp.data_id, tn.capacity, tn.balancer_capacity))],
                    <<create_control_handle_request(resp.backend_id,
                        resp.data_id, tn.capacity, tn.balancer_capacity)>>,
                    "ok"),
            {[backend_id |-> resp.backend_id, session_id |-> resp.data_id,
              pool_size |-> tn.capacity]})
     ELSE IF tn.tag = "CreateControlHandle"
     THEN Spawning(
            Outcome([d EXCEPT !.janus_backend =
                       UpsertQuery(@, BackendRow(resp.backend_id, resp.data_id,
                         Unwrap(tn.session_id), tn.capacity,
                         tn.balancer_capacity))],
                    <<>>, "ok"),
            {})
     ELSE IF tn.tag = "CreatePoolHandle"
     THEN Spawning(Outcome(d, <<>>, IF pool_ok THEN "ok"
                                    ELSE "backend_initialization_failed"), {})
     ELSE Spawning(Outcome(d, <<>>, "ok"), {})

\* handle_response_impl for a Success: the response to CreateSession spawns
\* the warm-up of the pool and yields the CreateControlHandle request; the
\* response to CreateControlHandle upserts the row of the backend; the
\* response to CreatePoolHandle goes to the pool, whose error is logged and
\* reported (pool_ok: the callback of the pool succeeded).
handle_success(d, resp, pool_ok) ==
  LET txn == resp.transaction
      tn == Unwrap(txn)
  IN IF ~IsSome(txn)
     THEN Spawning(Failed(d, "message_parsing_failed"), {})
     ELSE IF tn.tag = "CreateSession"
     THEN Spawning(
            Outcome(d, <<create_control_handle_request(resp.backend_id,
                           resp.data_id, tn.capacity, tn.balancer_capacity)>>,
                    "ok"),
            {[backend_id |-> resp.backend_id, session_id |-> resp.data_id,
              pool_size |-> tn.capacity]})
     ELSE IF tn.tag = "CreateControlHandle"
     THEN Spawning(
            Outcome([d EXCEPT !.janus_backend =
                       UpsertQuery(@, BackendRow(resp.backend_id, resp.data_id,
                         Unwrap(tn.session_id), tn.capacity,
                         tn.balancer_capacity))],
                    <<>>, "ok"),
            {})
     ELSE IF tn.tag = "CreatePoolHandle"
     THEN Spawning(Outcome(d, <<>>, IF pool_ok THEN "ok"
                                    ELSE "backend_initialization_failed"), {})
     ELSE Spawning(Outcome(d, <<>>, "ok"), {})

process_response_MutDropLate(d, resp, request, pool_ok) ==
  IF request.timed_out
  THEN Spawning(Failed(d, "message_parsing_failed"), {})
  ELSE IF resp.envelope = "Success" THEN handle_success(d, resp, pool_ok)
  ELSE Spawning(handle_response_impl(d, resp), {})

\* handle_response_impl for the response to a registered request: after
\* finish_transaction the response is decoded and dispatched on its own,
\* whatever has become of the request.
process_response(d, resp, request, pool_ok) ==
  IF resp.envelope = "Success" THEN handle_success(d, resp, pool_ok)
  ELSE Spawning(handle_response_impl(d, resp), {})

(***************************************************************************)
(* Orphaned rooms.  A tracking row of the orphaned_room table names a room *)
(* and the time it was orphaned at.  OrphanedRoomCloseHandler::handle runs *)
(* in three stages with suspension points between them: it loads the rows  *)
(* past the deadline and sorts them by the state of their room, runs one   *)
(* closing task per room that is still open, and then builds the           *)
(* notifications and removes the tracking rows.  Workers handle sweeps     *)
(* concurrently.                                                           *)
(***************************************************************************)
\* context.config().orphaned_room_timeout
OrphanedRoomTimeout == 1

\* The workers that handle sweeps.
Sweepers == {1, 2}

\* The rooms a tracking row may name, in the order of the rows; roomX has
\* no row in the room table.
OrphanSeq == <<"roomA", "roomB", "roomX">>

\* room::Object::is_closed: the closing bound of the room has passed.
is_closed(room, t) ==
  LET closed_at == room.time[2]
  IN IsSome(closed_at) /\ Unwrap(closed_at) <= t

\* db::orphaned_room::get_timed_out: the rooms of the tracking rows that
\* were orphaned before load_till.
get_timed_out(d, load_till) ==
  SelectSeq(OrphanSeq,
    LAMBDA id : \E o \in d.orphaned_room : o.id = id /\ o.orphaned_at < load_till)

\* db::orphaned_room::remove_rooms
remove_rooms(orphans, ids) == {o \in orphans : o.id \notin ids}

\* db::room::UpdateQuery::new(id).time(..).timed_out()
RoomUpdateQuery(rooms, id, time) ==
  [rooms EXCEPT ![id].time = time, ![id].timed_out = TRUE]

\* A worker without a sweep.
IdleSweep ==
  [pc |-> "idle", at |-> 0, read |-> <<>>, timed_out |-> <<>>,
   close_tasks |-> <<>>, closed_rooms |-> <<>>, closed |-> <<>>]

IdleSweeps == [p \in Sweepers |-> IdleSweep]

close_tasks_MutNoIsClosed(d, timed_out, t) ==
  SelectSeq(timed_out, LAMBDA id : id \in DOMAIN d.room)

\* The first loop of the handler: a closing task for every room that
\* exists and is not closed.
close_tasks(d, timed_out, t) ==
  SelectSeq(timed_out,
    LAMBDA id : id \in DOMAIN d.room /\ ~is_closed(d.room[id], t))

\* The first stage of OrphanedRoomCloseHandler::handle: the rows past the
\* deadline, the closing tasks, and the rows of the other rooms, which go
\* to closed_rooms at once.
orphaned_room_load(d, t) ==
  LET timed_out == get_timed_out(d, t - OrphanedRoomTimeout)
      tasks == close_tasks(d, timed_out, t)
  IN [pc |-> "closing", at |-> t, read |-> d.room, timed_out |-> timed_out,
      close_tasks |-> tasks,
      closed_rooms |-> SelectSeq(timed_out, LAMBDA id : id \notin Range(tasks)),
      closed |-> <<>>]

\* The two room.close notifications of a closed room: to the topic of the
\* room and to the topic of its audience.
RECURSIVE close_notifications(_, _)
close_notifications(d, closed) ==
  IF closed = <<>> THEN <<>>
  ELSE <<[label |-> "room.close", room_id |-> Head(closed),
          to |-> <<"rooms", Head(closed)>>],
         [label |-> "room.close", room_id |-> Head(closed),
          to |-> <<"audiences", d.room[Head(closed)].audience>>]>>
       \o close_notifications(d, Tail(closed))

(***************************************************************************)
(* The database of the stream lifecycle specification: three stream rows   *)
(* as InsertQuery leaves them (time NULL), two of them on the same handle, *)
(* and no row on handle h2.                                                *)
(***************************************************************************)
NewStream(backend_id, handle_id, rtc_id) ==
  [backend_id |-> backend_id, handle_id |-> handle_id, rtc_id |-> rtc_id,
   time |-> None]

NewRoom(opened_at, closed_at, policy, classroom_id) ==
  [time |-> <<opened_at, closed_at>>, audience |-> "aud",
   rtc_sharing_policy |-> policy, classroom_id |-> classroom_id,
   timed_out |-> FALSE]

StreamDb ==
  [stream |-> [i \in StreamIds |->
                 CASE i = 1 -> NewStream("b1", "h1", "rtc1")
                   [] i = 2 -> NewStream("b1", "h1", "rtc2")
                   [] OTHER -> NewStream("b2", "h1", "rtc4")],
   agent_connection |-> {[agent |-> "a1", room_id |-> "roomA", backend_id |-> "b1"],
                         [agent |-> "a2", room_id |-> "roomB", backend_id |-> "b2"],
                         [agent |-> "a3", room_id |-> "roomB", backend_id |-> "b1"]},
   janus_backend |-> BackendRows,
   room |-> [r \in RoomIds |->
               IF r = "roomA" THEN NewRoom(Some(0), Some(2), "Shared", None)
               ELSE NewRoom(Some(0), None, "Shared", None)],
   recording |-> [r \in RtcIds |-> None],
   agent |-> {},
   orphaned_room |-> {}]

NoEvent == [kind |-> "none"]

\* No janus event is being handled.
NoDeliveries == <<>>

JanusEvents ==
  [kind : {"WebRtcUp", "HangUp", "Detached", "Media", "Timeout", "SlowLink"},
   backend_id : Backends, handle_id : Handles]

StatusEvents ==
  [kind : {"Status"}, backend_id : Backends, online : BOOLEAN,
   capacity : {Some(2)}, balancer_capacity : {Some(1)}, failure : {"none"}]

\* The clock starts after the opening time of both rooms.
InitStream ==
  /\ now = 1
  /\ db = StreamDb
  /\ pre = StreamDb
  /\ lastEv = NoEvent
  /\ lastOut = <<>>
  /\ lastSent = <<>>
  /\ lastResult = "ok"
  /\ issued = <<>>
  /\ resolved = None
  /\ sweeps = IdleSweeps
  /\ janus_timeouts = NoTimeouts
  /\ handle_pool = {}
  /\ deliveries = NoDeliveries

\* Time passes between two deliveries.
Tick ==
  /\ now < MaxTime
  /\ now' = now + 1
  /\ UNCHANGED <<db, pre, lastEv, lastOut, lastSent, lastResult, issued,
                 resolved, sweeps, janus_timeouts, handle_pool, deliveries>>

\* The handled message with the time of its handling.
Stamp(ev, t) ==
  [x \in DOMAIN ev \cup {"at"} |-> IF x = "at" THEN t ELSE ev[x]]

\* What a handler leaves behind: the database it committed, the messages it
\* returned and its result, beside the database it started from.
Apply(ev, outcome) ==
  /\ pre' = db
  /\ lastEv' = Stamp(ev, now)
  /\ db' = outcome.db
  /\ lastOut' = outcome.out
  /\ lastSent' = outcome.sent
  /\ lastResult' = outcome.result
  /\ UNCHANGED <<now, issued, resolved, sweeps, janus_timeouts, handle_pool, deliveries>>

\* handle_event: a WebRtcUp, HangUp, Detached or Media event of a backend.
HandleEvent ==
  \E ev \in JanusEvents : Apply(ev, handle_event_impl(db, ev, now))

\* handle_status_event: a backend reports itself online or offline.
HandleStatusEvent ==
  \E ev \in StatusEvents : Apply(ev, handle_status_event_impl(db, ev, now))

NextStream == Tick \/ HandleEvent \/ HandleStatusEvent

SpecStream == InitStream /\ [][NextStream]_vars

(***************************************************************************)
(* The offline specification: the stream lifecycle with status events      *)
(* whose transaction meets a failing statement.                            *)
(***************************************************************************)
OfflineFailures == {"list", "disconnect", "delete"}

FailingStatusEvents ==
  [kind : {"Status"}, backend_id : Backends, online : {FALSE},
   capacity : {Some(2)}, balancer_capacity : {Some(1)},
   failure : OfflineFailures]

\* handle_status_event for an offline event, a statement of whose
\* transaction fails.
HandleFailingStatusEvent ==
  \E ev \in FailingStatusEvents :
    Apply(ev, handle_status_event_impl(db, ev, now))

NextOffline ==
  Tick \/ HandleEvent \/ HandleStatusEvent \/ HandleFailingStatusEvent

SpecOffline == InitStream /\ [][NextOffline]_vars

(***************************************************************************)
(* The racing deliveries: two workers handle one event each for the handle *)
(* h1 of b1.  Each handler runs its lookup and its write inside            *)
(* conn.transaction, which opens a transaction of the database's default   *)
(* isolation level (read committed): the lookup takes no lock, so another  *)
(* worker's statements may commit between a handler's lookup and its       *)
(* write, and the write acts on the row as it is then.                     *)
(***************************************************************************)
Workers == {1, 2}

RaceEvents ==
  [kind : {"WebRtcUp", "HangUp", "Detached"},
   backend_id : {"b1"}, handle_id : {"h1"}]

\* The streams of `started` have been started at 0.
RaceDb(started) ==
  [StreamDb EXCEPT
     !.stream = [i \in StreamIds |->
                   IF i \in started THEN [@[i] EXCEPT !.time = <<0>>]
                   ELSE @[i]]]

Received(ev) == [ev |-> ev, pc |-> "received", found |-> None]

\* pre is the database the racing handlers start from.
InitRace ==
  /\ now = 1
  /\ \E started \in SUBSET {1, 2} :
       /\ db = RaceDb(started)
       /\ pre = RaceDb(started)
  /\ lastEv = NoEvent
  /\ lastOut = <<>>
  /\ lastSent = <<>>
  /\ lastResult = "ok"
  /\ issued = <<>>
  /\ resolved = None
  /\ sweeps = IdleSweeps
  /\ janus_timeouts = NoTimeouts
  /\ handle_pool = {}
  /\ deliveries \in [Workers -> {Received(ev) : ev \in RaceEvents}]

\* The first statement of the handler's transaction: find_rtc_stream.
\* Without a stream the handler returns the empty stream.
RaceFind ==
  \E w \in Workers :
    /\ deliveries[w].pc = "received"
    /\ LET ev == deliveries[w].ev
           found == find_rtc_stream(db.stream, ev.backend_id, ev.handle_id)
       IN IF IsSome(found)
          THEN /\ deliveries' = [deliveries EXCEPT ![w].pc = "found",
                                                   ![w].found = found]
               /\ UNCHANGED <<lastEv, lastOut, lastSent, lastResult>>
          ELSE /\ deliveries' = [deliveries EXCEPT ![w].pc = "done"]
               /\ lastEv' = Stamp(ev, now)
               /\ lastOut' = <<>>
               /\ lastSent' = <<>>
               /\ lastResult' = "ok"
    /\ UNCHANGED <<now, db, pre, issued, resolved, sweeps, janus_timeouts,
                   handle_pool>>

\* The second statement of the transaction and the rest of the handler.
RaceWrite ==
  \E w \in Workers :
    /\ deliveries[w].pc = "found"
    /\ LET ev == deliveries[w].ev
           id == Unwrap(deliveries[w].found)
           outcome == IF ev.kind = "WebRtcUp"
                      THEN webrtc_up_write(db, id, now)
                      ELSE hangup_detach_write(db, id, now)
       IN /\ db' = outcome.db
          /\ lastEv' = Stamp(ev, now)
          /\ lastOut' = outcome.out
          /\ lastSent' = outcome.sent
          /\ lastResult' = outcome.result
    /\ deliveries' = [deliveries EXCEPT ![w].pc = "done"]
    /\ UNCHANGED <<now, pre, issued, resolved, sweeps, janus_timeouts,
                   handle_pool>>

NextRace == Tick \/ RaceFind \/ RaceWrite

SpecRace == InitRace /\ [][NextRace]_vars

(***************************************************************************)
(* The upload specification: two rooms that close at 1 and at 2, roomA     *)
(* with three rtcs and roomB with one, the recordings of the recorded rtcs *)
(* in progress, and an agent left in each room.                            *)
(***************************************************************************)
UploadDb(recorded, policy) ==
  [stream |-> [i \in StreamIds |-> NewStream("b1", "h1", "rtc1")],
   agent_connection |-> {},
   janus_backend |-> BackendRows,
   room |-> [r \in RoomIds |->
               IF r = "roomA" THEN NewRoom(Some(0), Some(1), policy, Some("cls"))
               ELSE NewRoom(Some(0), Some(2), "Shared", None)],
   recording |-> [r \in RtcIds |->
                    IF r \in recorded THEN Some(NewRecording("in_progress"))
                    ELSE None],
   agent |-> {[agent |-> "a1", room_id |-> "roomA"],
              [agent |-> "a2", room_id |-> "roomB"]},
   orphaned_room |-> {}]

\* What a backend answers to an upload request, or "Error" for a request
\* that failed.
UploadResponses == {"Missing", "AlreadyRunning", "Done", "Error"}

\* The events of UploadStream transactions: the rtc of the transaction, the
\* status and the state of the plugin's data.
UploadStreamEvents ==
  {[kind |-> "UploadStream", rtc_id |-> r, status |-> x[1], state |-> x[2],
    started_at |-> 1, time |-> <<<<0, 1>>>>] :
     r \in RtcIds,
     x \in {<<"200", "done">>, <<"200", "already_running">>,
            <<"404", "none">>, <<"500", "none">>}}

InitUpload ==
  /\ now = 1
  /\ db = UploadDb({"rtc1", "rtc2", "rtc3"}, "Owned")
  /\ pre = db
  /\ lastEv = NoEvent
  /\ lastOut = <<>>
  /\ lastSent = <<>>
  /\ lastResult = "ok"
  /\ issued = <<>>
  /\ resolved = None
  /\ sweeps = IdleSweeps
  /\ janus_timeouts = NoTimeouts
  /\ handle_pool = {}
  /\ deliveries = NoDeliveries

\* system.vacuum: the request and what the backends answer to the upload
\* requests of the sweep; the handled message keeps which requests would be
\* answered AlreadyRunning.
Vacuum ==
  \E authorized \in BOOLEAN :
    \E janus \in [Range(finished_with_in_progress_recordings(db, now))
                    -> UploadResponses] :
      Apply([kind |-> "Vacuum", authorized |-> authorized,
             already_running |->
               {r \in DOMAIN janus : janus[r] = "AlreadyRunning"}],
            VacuumHandler(db, [authorized |-> authorized, janus |-> janus],
                          now))

\* The event of an UploadStream transaction arrives for a recorded rtc.
HandleUploadStreamEvent ==
  \E resp \in UploadStreamEvents :
    /\ IsSome(db.recording[resp.rtc_id])
    /\ Apply(resp, handle_upload_stream_event(db, resp, now))

NextUpload == Tick \/ Vacuum \/ HandleUploadStreamEvent

SpecUpload == InitUpload /\ [][NextUpload]_vars

(***************************************************************************)
(* The racing confirmations: the uploads of the last two recordings in     *)
(* progress of roomA are confirmed at the same time, each confirmation     *)
(* handled by a worker of its own.  The handler runs its statements on a   *)
(* connection without a transaction: the update of one handler is          *)
(* committed when the other one lists the recordings of the room.          *)
(***************************************************************************)
\* The third recording of roomA is ready or missing already.
UploadRaceDb(policy, third) ==
  [UploadDb({"rtc1", "rtc2", "rtc3"}, policy) EXCEPT
     !.recording["rtc3"] = Some(NewRecording(third))]

DoneEvent(rtc_id) ==
  CHOOSE ev \in UploadStreamEvents :
    ev.rtc_id = rtc_id /\ ev.status = "200" /\ ev.state = "done"

Confirmation(ev) == [ev |-> ev, pc |-> "received", out |-> <<>>]

InitUploadRace ==
  /\ now = 1
  /\ \E policy \in {"Owned", "Shared"}, third \in {"ready", "missing"} :
       /\ db = UploadRaceDb(policy, third)
       /\ pre = UploadRaceDb(policy, third)
  /\ lastEv = NoEvent
  /\ lastOut = <<>>
  /\ lastSent = <<>>
  /\ lastResult = "ok"
  /\ issued = <<>>
  /\ resolved = None
  /\ sweeps = IdleSweeps
  /\ janus_timeouts = NoTimeouts
  /\ handle_pool = {}
  /\ deliveries = [w \in Workers |->
                     Confirmation(DoneEvent(IF w = 1 THEN "rtc1" ELSE "rtc2"))]

\* recording::UpdateQuery of a confirmation
UploadRaceUpdate ==
  \E w \in Workers :
    /\ deliveries[w].pc = "received"
    /\ db' = upload_done_update(db, deliveries[w].ev)
    /\ deliveries' = [deliveries EXCEPT ![w].pc = "updated"]
    /\ UNCHANGED <<now, pre, lastEv, lastOut, lastSent, lastResult, issued,
                   resolved, sweeps, janus_timeouts, handle_pool>>

\* The listing of the room's recordings and the building of the event.
UploadRaceEvent ==
  \E w \in Workers :
    /\ deliveries[w].pc = "updated"
    /\ LET outcome == upload_done_event(db, deliveries[w].ev)
       IN /\ db' = outcome.db
          /\ lastEv' = Stamp(deliveries[w].ev, now)
          /\ lastOut' = outcome.out
          /\ lastSent' = outcome.sent
          /\ lastResult' = outcome.result
          /\ deliveries' = [deliveries EXCEPT ![w].pc = "done",
                                              ![w].out = outcome.out]
    /\ UNCHANGED <<now, pre, issued, resolved, sweeps, janus_timeouts,
                   handle_pool>>

NextUploadRace == Tick \/ UploadRaceUpdate \/ UploadRaceEvent

SpecUploadRace == InitUploadRace /\ [][NextUploadRace]_vars

(***************************************************************************)
(* The transaction specification: create_handle_request is called with     *)
(* arguments of a small set, the request stays in flight until its         *)
(* response arrives, and the response is resolved from its token alone.    *)
(***************************************************************************)
\* The arguments of create_handle_request: a negative and a positive
\* session id, and a group with a comma, a quote and a backslash in it.
CreateHandleArgs ==
  [kind : {"CreateHandle"},
   session_id : {-7, 120},
   capacity : {None, Some(5)},
   balancer_capacity : {None, Some(-1)},
   group : {None, Some(<<103, 44, 34, 92>>)},
   janus_url : {None, Some(<<119, 115, 58, 47, 47, 104>>)}]

InitTxn ==
  /\ now = 1
  /\ db = StreamDb
  /\ pre = StreamDb
  /\ lastEv = NoEvent
  /\ lastOut = <<>>
  /\ lastSent = <<>>
  /\ lastResult = "ok"
  /\ issued = <<>>
  /\ resolved = None
  /\ sweeps = IdleSweeps
  /\ janus_timeouts = NoTimeouts
  /\ handle_pool = {}
  /\ deliveries = NoDeliveries

\* A handle is requested: the request goes out and stays in flight, beside
\* the arguments it was made from.
CreateHandle ==
  \E args \in CreateHandleArgs :
    LET request == create_handle_request(args.session_id, args.capacity,
                     args.balancer_capacity, args.group, args.janus_url)
    IN /\ Len(issued) < MaxIssued
       /\ issued' = Append(issued, [payload |-> request, args |-> args])
       /\ lastEv' = Stamp(args, now)
       /\ lastOut' = <<request>>
       /\ lastResult' = "ok"
       /\ resolved' = None
       /\ UNCHANGED <<now, db, pre, lastSent, sweeps, janus_timeouts,
                      handle_pool, deliveries>>

\* handle_response_impl up to the decoding of the token: the backend
\* answers a request in flight with the token of the request.
HandleResponse ==
  \E i \in DOMAIN issued :
    LET token == issued[i].payload.transaction
        txn == from_base64(token)
    IN /\ resolved' = txn
       /\ issued' = SubSeq(issued, 1, i - 1) \o SubSeq(issued, i + 1, Len(issued))
       /\ lastEv' = Stamp([kind |-> "Response", transaction |-> token,
                           args |-> issued[i].args], now)
       /\ lastOut' = <<>>
       /\ lastResult' = IF IsSome(txn) THEN "ok" ELSE "message_parsing_failed"
       /\ UNCHANGED <<now, db, pre, lastSent, sweeps, janus_timeouts,
                      handle_pool, deliveries>>

NextTxn == Tick \/ CreateHandle \/ HandleResponse

SpecTxn == InitTxn /\ [][NextTxn]_vars

(***************************************************************************)
(* The orphaned-room specification: roomA is open without a closing time,  *)
(* roomB is closed at 1 or is to close at 3, and the tracking rows name    *)
(* roomA, roomB and a room that is gone.                                   *)
(***************************************************************************)
OrphanDb(closed_at, orphaned_at) ==
  [stream |-> [i \in StreamIds |-> NewStream("b1", "h1", "rtc1")],
   agent_connection |-> {},
   janus_backend |-> BackendRows,
   room |-> [r \in RoomIds |->
               IF r = "roomA" THEN NewRoom(Some(0), None, "Shared", None)
               ELSE NewRoom(Some(0), Some(closed_at), "Shared", None)],
   recording |-> [r \in RtcIds |-> None],
   agent |-> {},
   orphaned_room |-> {[id |-> "roomA", orphaned_at |-> 0],
                      [id |-> "roomB", orphaned_at |-> orphaned_at],
                      [id |-> "roomX", orphaned_at |-> 0]}]

InitOrphan ==
  /\ now = 1
  /\ \E closed_at \in {1, 3}, orphaned_at \in {0, 2} :
       db = OrphanDb(closed_at, orphaned_at)
  /\ pre = db
  /\ lastEv = NoEvent
  /\ lastOut = <<>>
  /\ lastSent = <<>>
  /\ lastResult = "ok"
  /\ issued = <<>>
  /\ resolved = None
  /\ sweeps = IdleSweeps
  /\ janus_timeouts = NoTimeouts
  /\ handle_pool = {}
  /\ deliveries = NoDeliveries

\* system.close_orphaned_rooms arrives at an idle worker: the authorization,
\* the query and the first loop of the handler.
OrphanLoad ==
  \E p \in Sweepers, authorized \in BOOLEAN :
    /\ sweeps[p].pc = "idle"
    /\ IF authorized
       THEN /\ sweeps' = [sweeps EXCEPT ![p] = orphaned_room_load(db, now)]
            /\ UNCHANGED <<pre, lastEv, lastOut, lastResult>>
       ELSE /\ pre' = db
            /\ lastEv' = Stamp([kind |-> "OrphanedRoomClose", worker |-> p,
                                sweep |-> IdleSweep], now)
            /\ lastOut' = <<>>
            /\ lastResult' = "access_denied"
            /\ UNCHANGED sweeps
    /\ UNCHANGED <<now, db, lastSent, issued, resolved, janus_timeouts,
                   handle_pool, deliveries>>

\* A closing task of a sweep runs: it sets the closing bound of the room it
\* was made for to the current time, beside the opening bound the sweep
\* read, or fails and is logged.
OrphanClose ==
  \E p \in Sweepers, ok \in BOOLEAN :
    LET sweep == sweeps[p]
        id == Head(sweep.close_tasks)
    IN /\ sweep.pc = "closing"
       /\ sweep.close_tasks # <<>>
       /\ db' = IF ok
                THEN [db EXCEPT !.room =
                        RoomUpdateQuery(@, id, <<sweep.read[id].time[1], Some(now)>>)]
                ELSE db
       /\ sweeps' = [sweeps EXCEPT ![p].close_tasks = Tail(@),
                                   ![p].closed = IF ok THEN Append(@, id) ELSE @]
       /\ UNCHANGED <<janus_timeouts, handle_pool, deliveries>>
       /\ UNCHANGED <<now, pre, lastEv, lastOut, lastSent, lastResult, issued,
                      resolved>>

\* The rest of the handler once the tasks are done: the notifications of
\* the closed rooms and the removal of the tracking rows, whose failure is
\* logged.
OrphanFinish ==
  \E p \in Sweepers, removed \in BOOLEAN :
    LET sweep == sweeps[p]
        closed_rooms == sweep.closed_rooms \o sweep.closed
    IN /\ sweep.pc = "closing"
       /\ sweep.close_tasks = <<>>
       /\ pre' = db
       /\ db' = IF removed
                THEN [db EXCEPT !.orphaned_room =
                        remove_rooms(@, Range(closed_rooms))]
                ELSE db
       /\ lastEv' = Stamp([kind |-> "OrphanedRoomClose", worker |-> p,
                           sweep |-> sweep, removed |-> removed], now)
       /\ lastOut' = close_notifications(db, sweep.closed)
       /\ lastResult' = "ok"
       /\ sweeps' = [sweeps EXCEPT ![p] = IdleSweep]
       /\ UNCHANGED <<now, lastSent, issued, resolved, janus_timeouts,
                      handle_pool, deliveries>>

NextOrphan == Tick \/ OrphanLoad \/ OrphanClose \/ OrphanFinish

SpecOrphan == InitOrphan /\ [][NextOrphan]_vars

(***************************************************************************)
(* The response specification: a backend answers the signalling requests  *)
(* of two agents; the responses arrive in any order and any number of      *)
(* times, with every envelope, with or without data, status and jsep.      *)
(***************************************************************************)
\* The properties of the requests of the agents.
RequestProperties ==
  [agent_id : {"a1", "a2"}, correlation_data : {"c1"}]

\* The transactions of the signalling requests.
SignalTransactions ==
  [tag : {"CreateStream", "ReadStream", "Trickle"}, reqp : RequestProperties]

\* The data of the plugin in an event: the status may be missing.
PluginData == [status : {None, Some("200"), Some("500")}]

JanusResponses ==
  [kind : {"JanusResponse"},
   envelope : {"Ack", "Success", "Event", "ErrorSession", "ErrorHandle"},
   transaction : {None} \cup {Some(tn) : tn \in SignalTransactions},
   data : {None} \cup {Some(data) : data \in PluginData},
   jsep : {None, Some("answer1")}]
  \cup
  [kind : {"JanusResponse"}, envelope : {"Malformed"}, transaction : {None},
   data : {None}, jsep : {None}]

InitResponse ==
  /\ now = 1
  /\ db = StreamDb
  /\ pre = StreamDb
  /\ lastEv = NoEvent
  /\ lastOut = <<>>
  /\ lastSent = <<>>
  /\ lastResult = "ok"
  /\ issued = <<>>
  /\ resolved = None
  /\ sweeps = IdleSweeps
  /\ janus_timeouts = NoTimeouts
  /\ handle_pool = {}
  /\ deliveries = NoDeliveries

\* handle_response: a response of the backend is handled.
HandleJanusResponse ==
  \E resp \in JanusResponses : Apply(resp, handle_response_impl(db, resp))

NextResponse == Tick \/ HandleJanusResponse

SpecResponse == InitResponse /\ [][NextResponse]_vars

(***************************************************************************)
(* The dispatch specification: the responses of the response               *)
(* specification beside the events of the backends.                        *)
(***************************************************************************)
\* The events of one handle of one backend, of every kind.
DispatchEvents ==
  {ev \in JanusEvents : ev.backend_id = "b1" /\ ev.handle_id = "h1"}

\* handle_event
HandleDispatchEvent ==
  \E ev \in DispatchEvents : Apply(ev, handle_event_impl(db, ev, now))

NextDispatch == Tick \/ HandleJanusResponse \/ HandleDispatchEvent

SpecDispatch == InitResponse /\ [][NextDispatch]_vars

(***************************************************************************)
(* The bootstrap specification: no backend has a row yet; the backends     *)
(* report themselves online and offline, answer the requests in flight     *)
(* with a success or with an error of the session, early or late, and the  *)
(* warm-up tasks of the pool end well or fail.                             *)
(***************************************************************************)
BootDb == [StreamDb EXCEPT !.janus_backend = {}, !.agent_connection = {}]

\* The status events: b1 reports the capacities 1 and 2, b2 reports 2 and 1.
BootStatusEvents ==
  {[kind |-> "Status", backend_id |-> b, online |-> online,
    capacity |-> IF b = "b1" THEN Some(1) ELSE Some(2),
    balancer_capacity |-> IF b = "b1" THEN Some(2) ELSE Some(1),
    failure |-> "none"] :
     b \in Backends, online \in BOOLEAN}

\* The id in the data of a success response: the backends number their
\* sessions from 70 and their handles from 80.
DataId(request) ==
  (IF request.payload.transaction.tag = "CreateSession" THEN 70 ELSE 80)
  + (IF request.payload.to = "b1" THEN 1 ELSE 2)

\* The responses a backend may give to a request in flight.
ResponsesTo(request) ==
  [kind : {"JanusResponse"}, envelope : {"Success", "ErrorSession"},
   transaction : {Some(request.payload.transaction)},
   backend_id : {request.payload.to}, data_id : {DataId(request)},
   late : {request.timed_out}, data : {None}, jsep : {None}]

\* HandlePool::create_handles asks for a handle of the pool on the session.
create_pool_handle_request(backend_id, session_id) ==
  [label |-> "janus_handle.create", to |-> backend_id,
   transaction |-> [tag |-> "CreatePoolHandle",
                    session_id |-> Some(session_id),
                    capacity |-> None, balancer_capacity |-> None]]

InitBoot ==
  /\ now = 1
  /\ db = BootDb
  /\ pre = BootDb
  /\ lastEv = NoEvent
  /\ lastOut = <<>>
  /\ lastSent = <<>>
  /\ lastResult = "ok"
  /\ issued = <<>>
  /\ resolved = None
  /\ sweeps = IdleSweeps
  /\ janus_timeouts = NoTimeouts
  /\ handle_pool = {}
  /\ deliveries = NoDeliveries

\* handle_status_event: the CreateSession request to a backend that is
\* online is registered with the client.
BootStatus ==
  \E ev \in BootStatusEvents :
    LET outcome == handle_status_event_impl(db, ev, now)
    IN /\ ev.online => Len(issued) < MaxIssued
       /\ issued' = IF ev.online
                    THEN register_transaction(issued, outcome.out[1], now)
                    ELSE issued
       /\ pre' = db
       /\ db' = outcome.db
       /\ lastEv' = Stamp(ev, now)
       /\ lastOut' = outcome.out
       /\ lastSent' = outcome.sent
       /\ lastResult' = outcome.result
       /\ UNCHANGED <<now, resolved, sweeps, janus_timeouts, handle_pool, deliveries>>

\* handle_response: a backend answers a request in flight; the request
\* that the handler returns is registered in its turn, and the task it
\* spawned joins the tasks of the pool.
BootResponse ==
  \E i \in DOMAIN issued :
    \E resp \in ResponsesTo(issued[i]) :
      \E pool_ok \in IF issued[i].payload.transaction.tag = "CreatePoolHandle"
                     THEN BOOLEAN ELSE {TRUE} :
        LET outcome == process_response(db, resp, issued[i], pool_ok)
            rest == finish_transaction(issued, i)
        IN /\ issued' = IF outcome.out # <<>>
                        THEN register_transaction(rest, outcome.out[1], now)
                        ELSE rest
           /\ handle_pool' = handle_pool \cup outcome.spawned
           /\ pre' = db
           /\ db' = outcome.db
           /\ lastEv' = Stamp(resp, now)
           /\ lastOut' = outcome.out
           /\ lastSent' = outcome.sent
           /\ lastResult' = outcome.result
           /\ UNCHANGED <<now, resolved, sweeps, janus_timeouts, deliveries>>

\* The background task of HandlePool::create_handles ends: it has asked
\* for the handles of the pool (as far as requests may be kept in flight),
\* or it has failed, and its error is logged and reported.
BootWarmUp ==
  \E task \in handle_pool, ok \in BOOLEAN :
    /\ handle_pool' = handle_pool \ {task}
    /\ issued' = IF ok /\ Len(issued) < MaxIssued
                 THEN register_transaction(issued,
                        create_pool_handle_request(task.backend_id,
                                                   task.session_id), now)
                 ELSE issued
    /\ pre' = db
    /\ lastEv' = Stamp([kind |-> "WarmUp", task |-> task, ok |-> ok], now)
    /\ lastOut' = <<>>
    /\ lastSent' = <<>>
    /\ lastResult' = IF ok THEN "ok" ELSE "backend_initialization_failed"
    /\ UNCHANGED <<now, db, resolved, sweeps, janus_timeouts, deliveries>>

\* A request in flight passes its deadline: the collector counts it for
\* its backend, and the request stays in flight.
BootTimeout ==
  \E i \in DOMAIN issued :
    /\ ~issued[i].timed_out
    /\ now > issued[i].deadline
    /\ issued' = [issued EXCEPT ![i].timed_out = TRUE]
    /\ janus_timeouts' = record_janus_timeout(janus_timeouts,
                                              issued[i].payload.to)
    /\ pre' = db
    /\ lastEv' = Stamp([kind |-> "Timeout",
                        backend_id |-> issued[i].payload.to], now)
    /\ lastOut' = <<>>
    /\ lastSent' = <<>>
    /\ lastResult' = "ok"
    /\ UNCHANGED <<now, db, resolved, sweeps, handle_pool, deliveries>>

NextBoot == Tick \/ BootStatus \/ BootResponse \/ BootWarmUp \/ BootTimeout

SpecBoot == InitBoot /\ [][NextBoot]_vars

(***************************************************************************)
(* The system specification: the vacuum over a database with a recording   *)
(* in each room, beside the events of the uploads.  roomA has any sharing  *)
(* policy, with or without a classroom; roomB is shared or has no policy,  *)
(* and has a tracking row.  An upload request of the vacuum is answered by *)
(* the backend, or fails, or the client of the backend cannot be made.     *)
(***************************************************************************)
SystemDb(policy, classroom_id, policyB) ==
  [UploadDb({"rtc1", "rtc4"}, policy) EXCEPT
     !.room["roomA"].classroom_id = classroom_id,
     !.room["roomB"].rtc_sharing_policy = policyB,
     !.orphaned_room = {[id |-> "roomB", orphaned_at |-> 0]}]

\* What becomes of an upload request of the vacuum.
VacuumResponses == UploadResponses \cup {"ClientError"}

InitSystem ==
  /\ now = 1
  /\ \E policy \in {"Owned", "Shared", "None"},
        classroom_id \in {None, Some("cls")},
        policyB \in {"Shared", "None"} :
       db = SystemDb(policy, classroom_id, policyB)
  /\ pre = db
  /\ lastEv = NoEvent
  /\ lastOut = <<>>
  /\ lastSent = <<>>
  /\ lastResult = "ok"
  /\ issued = <<>>
  /\ resolved = None
  /\ sweeps = IdleSweeps
  /\ janus_timeouts = NoTimeouts
  /\ handle_pool = {}
  /\ deliveries = NoDeliveries

\* system.vacuum: the request, the rows the query yields and what becomes
\* of the upload request of each row.
SystemVacuum ==
  \E authorized \in BOOLEAN :
    \E janus \in [Range(finished_with_in_progress_recordings(db, now))
                    -> VacuumResponses] :
      Apply([kind |-> "Vacuum", authorized |-> authorized,
             rows |-> finished_with_in_progress_recordings(db, now),
             janus |-> janus],
            VacuumHandler(db, [authorized |-> authorized, janus |-> janus],
                          now))

NextSystem == Tick \/ SystemVacuum \/ HandleUploadStreamEvent

SpecSystem == InitSystem /\ [][NextSystem]_vars

(***************************************************************************)
(* The sweeps specification: the vacuum and the orphaned-room sweeps of    *)
(* two workers over one database, with requesters that are authorized and  *)
(* requesters that are not.                                                *)
(***************************************************************************)
\* roomB stays open till the last instant of the clock, so that the sweep
\* of the orphaned rooms finds it open.
SweepsDb ==
  [SystemDb("Owned", Some("cls"), "Shared") EXCEPT
     !.room["roomB"].time = <<Some(0), Some(MaxTime)>>]

InitSweeps ==
  /\ now = 1
  /\ db = SweepsDb
  /\ pre = db
  /\ lastEv = NoEvent
  /\ lastOut = <<>>
  /\ lastSent = <<>>
  /\ lastResult = "ok"
  /\ issued = <<>>
  /\ resolved = None
  /\ sweeps = IdleSweeps
  /\ janus_timeouts = NoTimeouts
  /\ handle_pool = {}
  /\ deliveries = NoDeliveries

NextSweeps ==
  Tick \/ SystemVacuum \/ OrphanLoad \/ OrphanClose \/ OrphanFinish

SpecSweeps == InitSweeps /\ [][NextSweeps]_vars

(***************************************************************************)
(* The request handlers of the agents: agent.list, message.unicast,        *)
(* message.broadcast and the callback of the unicast relay.  An agent is   *)
(* a number, the agent table holds one row per agent present in a room,    *)
(* and a handler that returns an error returns no stream.                  *)
(***************************************************************************)
MAX_LIMIT == 25

\* The status of the error kinds.
ErrorStatus ==
  [room_not_found |-> 404, room_closed |-> 404, access_denied |-> 403,
   agent_not_entered_the_room |-> 404]

Min(a, b) == IF a <= b THEN a ELSE b

unwrap_or(o, default) == IF IsSome(o) THEN Unwrap(o) ELSE default

\* find_room_by_id: the room of the id, checked against the requirement.
find_room_by_id(d, room_id, requirement, t) ==
  IF room_id \notin DOMAIN d.room
  THEN [id |-> room_id, check |-> "room_not_found"]
  ELSE [id |-> room_id,
        check |-> check_room(d.room[room_id], requirement, t)]

\* The rows of a set of agent rows, in the order of the agents.
RECURSIVE AgentsInOrder(_)
AgentsInOrder(rows) ==
  IF rows = {} THEN <<>>
  ELSE LET first == CHOOSE r \in rows : \A q \in rows : r.agent <= q.agent
       IN <<first>> \o AgentsInOrder(rows \ {first})

\* db::agent::ListQuery with the filters room_id and agent_id, offset and
\* limit (None: no filter, no limit).
AgentListQuery(agents, room_id, agent_id, offset, limit) ==
  LET rows == AgentsInOrder({r \in agents :
                               /\ r.room_id = room_id
                               /\ IsSome(agent_id) => r.agent = Unwrap(agent_id)})
      rest == IF offset >= Len(rows) THEN <<>>
              ELSE SubSeq(rows, offset + 1, Len(rows))
  IN IF IsSome(limit) THEN Take(rest, Unwrap(limit)) ELSE rest

\* helpers::check_room_presence
check_room_presence(d, room_id, agent_id) ==
  IF AgentListQuery(d.agent, room_id, Some(agent_id), 0, None) = <<>>
  THEN "agent_not_entered_the_room"
  ELSE "ok"

\* helpers::build_response: the response to the request of reqp.
build_response(status, payload, reqp) ==
  [label |-> "response", status |-> status, payload |-> payload,
   to |-> reqp.agent_id, correlation_data |-> reqp.correlation_data]

\* helpers::build_notification: an event on the topic of path.
build_notification(label, path, payload) ==
  [label |-> label, topic |-> path, payload |-> payload]

ListHandler_MutAuthorizeFirst(d, payload, reqp, authorized, t) ==
  LET room == find_room_by_id(d, payload.room_id, "Open", t)
  IN IF ~authorized THEN Failed(d, "access_denied")
     ELSE IF room.check # "ok" THEN Failed(d, room.check)
     ELSE Outcome(d,
            <<build_response(200,
                AgentListQuery(d.agent, payload.room_id, None,
                  unwrap_or(payload.offset, 0),
                  Some(Min(unwrap_or(payload.limit, MAX_LIMIT), MAX_LIMIT))),
                reqp)>>, "ok")

\* agent::ListHandler::handle; authorized is the verdict of the authorizer
\* on (room audience, reqp, ["rooms", room_id], "read").
ListHandler(d, payload, reqp, authorized, t) ==
  LET room == find_room_by_id(d, payload.room_id, "Open", t)
  IN IF room.check # "ok" THEN Failed(d, room.check)
     ELSE IF ~authorized THEN Failed(d, "access_denied")
     ELSE Outcome(d,
            <<build_response(200,
                AgentListQuery(d.agent, payload.room_id, None,
                  unwrap_or(payload.offset, 0),
                  Some(Min(unwrap_or(payload.limit, MAX_LIMIT), MAX_LIMIT))),
                reqp)>>, "ok")

\* The names of the methods of the relayed requests.
MethodName ==
  [x \in {"message.unicast"} |->
     <<109, 101, 115, 115, 97, 103, 101, 46, 117, 110, 105, 99, 97, 115,
       116>>]

\* The serialized properties of a request: the agent, the method and the
\* correlation data, between brackets and separated by commas.
serialize_properties(reqp) ==
  <<91>> \o itoa(reqp.agent_id) \o <<44>>
  \o Quoted(MethodName[reqp.method]) \o <<44>>
  \o Quoted(reqp.correlation_data) \o <<93>>

\* The properties of a serialized text, or None for a text that is not the
\* text of the properties of a request.
deserialize_properties(s) ==
  IF Len(s) < 2 \/ s[1] # 91 \/ s[Len(s)] # 93 THEN None
  ELSE
    LET fields == Fields(SubSeq(s, 2, Len(s) - 1), 1, <<>>, FALSE)
    IN IF \/ Len(fields) # 3
          \/ ~IsNumber(fields[1])
          \/ ~IsQuoted(fields[2])
          \/ ~IsQuoted(fields[3])
          \/ \A m \in DOMAIN MethodName : MethodName[m] # Unquoted(fields[2])
       THEN None
       ELSE Some([agent_id |-> atoi(fields[1]),
                  method |-> CHOOSE m \in DOMAIN MethodName :
                               MethodName[m] = Unquoted(fields[2]),
                  correlation_data |-> Unquoted(fields[3])])

\* util::to_base64 of the properties of a request
properties_to_base64(reqp) == base64_encode(serialize_properties(reqp))

\* util::from_base64 to the properties of a request, or None for a text
\* that does not decode.
properties_from_base64(text) ==
  IF Len(text) % 4 # 0 \/ \E i \in DOMAIN text : text[i] \notin 0..Pad
  THEN None
  ELSE deserialize_properties(base64_decode(text))

\* The topic the receiver's responses come back on.
response_topic(agent_id) == <<"agents/", agent_id, "/api/v1/out/", "svc">>

\* OutgoingRequest::unicast with the properties of reqp.to_request
unicast_request(data, reqp, correlation_data, agent_id) ==
  [label |-> "request", method |-> reqp.method, to |-> agent_id,
   payload |-> data, correlation_data |-> correlation_data,
   response_topic |-> response_topic(agent_id)]

UnicastHandler_MutNoReceiverCheck(d, payload, reqp, t) ==
  LET room == find_room_by_id(d, payload.room_id, "Open", t)
      sender == check_room_presence(d, payload.room_id, reqp.agent_id)
  IN IF room.check # "ok" THEN Failed(d, room.check)
     ELSE IF sender # "ok" THEN Failed(d, sender)
     ELSE Outcome(d, <<unicast_request(payload.data, reqp,
                         properties_to_base64(reqp), payload.agent_id)>>,
                  "ok")

\* message::UnicastHandler::handle; the building of the topic and of the
\* correlation data is taken to succeed.
UnicastHandler(d, payload, reqp, t) ==
  LET room == find_room_by_id(d, payload.room_id, "Open", t)
      sender == check_room_presence(d, payload.room_id, reqp.agent_id)
      receiver == check_room_presence(d, payload.room_id, payload.agent_id)
  IN IF room.check # "ok" THEN Failed(d, room.check)
     ELSE IF sender # "ok" THEN Failed(d, sender)
     ELSE IF receiver # "ok" THEN Failed(d, receiver)
     ELSE Outcome(d, <<unicast_request(payload.data, reqp,
                         properties_to_base64(reqp), payload.agent_id)>>,
                  "ok")

BroadcastHandler_MutNoPresenceCheck(d, payload, reqp, t) ==
  LET room == find_room_by_id(d, payload.room_id, "Open", t)
  IN IF room.check # "ok" THEN Failed(d, room.check)
     ELSE Outcome(d,
            <<build_response(200, "{}", reqp),
              build_notification("message.broadcast",
                                 <<"rooms/", room.id, "/events">>,
                                 payload.data)>>, "ok")

\* message::BroadcastHandler::handle
BroadcastHandler(d, payload, reqp, t) ==
  LET room == find_room_by_id(d, payload.room_id, "Open", t)
      sender == check_room_presence(d, payload.room_id, reqp.agent_id)
  IN IF room.check # "ok" THEN Failed(d, room.check)
     ELSE IF sender # "ok" THEN Failed(d, sender)
     ELSE Outcome(d,
            <<build_response(200, "{}", reqp),
              build_notification("message.broadcast",
                                 <<"rooms/", room.id, "/events">>,
                                 payload.data)>>, "ok")

CallbackHandler_MutOwnCorrelation(d, payload, respp) ==
  LET reqp == properties_from_base64(respp.correlation_data)
  IN IF ~IsSome(reqp) THEN Failed(d, "message_parsing_failed")
     ELSE Outcome(d,
            <<[label |-> "response", status |-> respp.status,
               payload |-> payload, to |-> Unwrap(reqp).agent_id,
               correlation_data |-> respp.correlation_data]>>, "ok")

\* message::CallbackHandler::handle: the response of the receiver of a
\* relayed request, answered to the agent of the decoded properties.
CallbackHandler(d, payload, respp) ==
  LET reqp == properties_from_base64(respp.correlation_data)
  IN IF ~IsSome(reqp) THEN Failed(d, "message_parsing_failed")
     ELSE Outcome(d,
            <<[label |-> "response", status |-> respp.status,
               payload |-> payload, to |-> Unwrap(reqp).agent_id,
               correlation_data |-> Unwrap(reqp).correlation_data]>>, "ok")

(***************************************************************************)
(* The endpoint specification: roomA is open over [0, 2) and holds more    *)
(* agents than a page, roomB is open without a closing time and holds one  *)
(* agent, roomX does not exist; the clock starts at the opening time of    *)
(* the rooms, when they are not yet open.                                  *)
(***************************************************************************)
RoomAgents == MAX_LIMIT + 2

Guest == RoomAgents + 1

Stranger == RoomAgents + 2

EndpointDb ==
  [StreamDb EXCEPT
     !.agent = {[agent |-> a, room_id |-> "roomA"] : a \in 1..RoomAgents}
               \cup {[agent |-> Guest, room_id |-> "roomB"]}]

\* The properties of an incoming request: the agent that sent it, its
\* method and its correlation data.
RequestProps(method) ==
  [agent_id : IF method = "agent.list" THEN {1} ELSE {1, Guest, Stranger},
   method : {method},
   correlation_data : {<<49>>, <<34, 50>>}]

ListRequests ==
  [room_id : RoomIds \cup {"roomX"},
   offset : {None, Some(3)},
   limit : {None, Some(2), Some(MAX_LIMIT + 1)}]

InitEndpoint ==
  /\ now = 0
  /\ db = EndpointDb
  /\ pre = EndpointDb
  /\ lastEv = NoEvent
  /\ lastOut = <<>>
  /\ lastSent = <<>>
  /\ lastResult = "ok"
  /\ issued = <<>>
  /\ resolved = None
  /\ sweeps = IdleSweeps
  /\ janus_timeouts = NoTimeouts
  /\ handle_pool = {}
  /\ deliveries = NoDeliveries

\* agent.list
AgentList ==
  \E payload \in ListRequests, reqp \in RequestProps("agent.list"),
     authorized \in BOOLEAN :
    Apply([kind |-> "agent.list", payload |-> payload, reqp |-> reqp,
           authorized |-> authorized],
          ListHandler(db, payload, reqp, authorized, now))

Data == {"data1", "data2"}

UnicastRequests ==
  [agent_id : {2, Guest, Stranger}, room_id : RoomIds \cup {"roomX"},
   data : Data]

BroadcastRequests ==
  [room_id : RoomIds \cup {"roomX"}, data : Data,
   label : {None, Some("chat")}]

\* message.unicast
MessageUnicast ==
  \E payload \in UnicastRequests, reqp \in RequestProps("message.unicast") :
    Apply([kind |-> "message.unicast", payload |-> payload, reqp |-> reqp],
          UnicastHandler(db, payload, reqp, now))

\* message.broadcast
MessageBroadcast ==
  \E payload \in BroadcastRequests,
     reqp \in RequestProps("message.broadcast") :
    Apply([kind |-> "message.broadcast", payload |-> payload, reqp |-> reqp],
          BroadcastHandler(db, payload, reqp, now))

\* What becomes of the correlation data on its way to the receiver and
\* back: it is echoed, or it loses its last four digits, or its first
\* digit is replaced by a character that is no base64 digit, or it is
\* the plain correlation data of some other request.
Echoes == {"echoed", "cut", "damaged", "foreign"}

Echoed(text, echo) ==
  CASE echo = "echoed" -> text
    [] echo = "cut" -> SubSeq(text, 1, Len(text) - 4)
    [] echo = "damaged" -> <<Pad + 1>> \o Tail(text)
    [] OTHER -> <<49, 50, 51, 52>>

\* The response of the receiver to a relayed request reaches the service:
\* origin is the request whose properties the relay encoded.
MessageCallback ==
  \E origin \in RequestProps("message.unicast"), echo \in Echoes,
     status \in {200, 404}, payload \in Data :
    LET respp == [correlation_data |->
                    Echoed(properties_to_base64(origin), echo),
                  status |-> status]
    IN Apply([kind |-> "message.callback", payload |-> payload,
              respp |-> respp, origin |-> origin, echo |-> echo],
             CallbackHandler(db, payload, respp))

NextEndpoint ==
  Tick \/ AgentList \/ MessageUnicast \/ MessageBroadcast \/ MessageCallback

SpecEndpoint == InitEndpoint /\ [][NextEndpoint]_vars

(***************************************************************************)
(* Properties of the stream lifecycle (SpecStream).                        *)
(***************************************************************************)
\* The inactive rows of (backend, handle) in a stream table.
InactiveRows(streams, backend_id, handle_id) ==
  {i \in DOMAIN streams : /\ streams[i].backend_id = backend_id
                          /\ streams[i].handle_id = handle_id
                          /\ ~IsActive(streams[i])}

\* The row a handle event relates to: the most recent inactive one.
TargetRow(streams, backend_id, handle_id) ==
  CHOOSE i \in InactiveRows(streams, backend_id, handle_id) :
    \A j \in InactiveRows(streams, backend_id, handle_id) : j <= i

IsHandleEvent(kinds) == lastEv.kind \in kinds

RoomOpenAt(d, room_id, t) == check_room(d.room[room_id], "Open", t) = "ok"

UpdateEvents(out) ==
  {k \in 1..Len(out) : out[k].label = "rtc_stream.update"}

\* C2: a WebRtcUp event for a (backend, handle) without an inactive stream
\* row emits no notification and leaves the whole database as it was.
C2_WebRtcUpWithoutRowIsNoOp ==
  (/\ IsHandleEvent({"WebRtcUp"})
   /\ InactiveRows(pre.stream, lastEv.backend_id, lastEv.handle_id) = {})
  => (lastOut = <<>> /\ db = pre /\ lastResult = "ok")

\* C2 witness: such an event was handled for a handle whose only rows are
\* active ones, and for a handle without any row.
C2_Witness ==
  /\ IsHandleEvent({"WebRtcUp"})
  /\ InactiveRows(pre.stream, lastEv.backend_id, lastEv.handle_id) = {}
  /\ \E i \in StreamIds : /\ pre.stream[i].backend_id = lastEv.backend_id
                          /\ pre.stream[i].handle_id = lastEv.handle_id
                          /\ IsActive(pre.stream[i])
  /\ lastOut = <<>>

\* C3: a WebRtcUp event for a (backend, handle) with an inactive stream row
\* marks that row started and emits exactly one stream-update notification
\* to the owning room; the row is never left started without a notification.
C3_WebRtcUpStartsAndNotifies ==
  (/\ IsHandleEvent({"WebRtcUp"})
   /\ InactiveRows(pre.stream, lastEv.backend_id, lastEv.handle_id) # {})
  => LET id == TargetRow(pre.stream, lastEv.backend_id, lastEv.handle_id)
     IN /\ HasStart(db.stream[id])
        /\ Len(lastOut) = 1
        /\ lastOut[1].label = "rtc_stream.update"
        /\ lastOut[1].stream = id
        /\ lastOut[1].room_id = RtcRoom[db.stream[id].rtc_id]

\* C4: a HangUp event for a (backend, handle) whose stream was started by an
\* earlier WebRtcUp (and not stopped since), handled while the room is open,
\* emits exactly one stream-update notification whose stop time is not
\* before its start time.
C4_HangUpAfterWebRtcUpNotifies ==
  (/\ IsHandleEvent({"HangUp"})
   /\ \E i \in StreamIds :
        /\ pre.stream[i].backend_id = lastEv.backend_id
        /\ pre.stream[i].handle_id = lastEv.handle_id
        /\ IsActive(pre.stream[i])
        /\ RoomOpenAt(pre, RtcRoom[pre.stream[i].rtc_id], lastEv.at))
  => /\ Len(lastOut) = 1
     /\ lastOut[1].label = "rtc_stream.update"
     /\ Len(lastOut[1].time) = 2
     /\ lastOut[1].time[2] >= lastOut[1].time[1]

\* C5: a HangUp or Detached event whose stream row never recorded a start is
\* a no-op: the handler succeeds, emits nothing and disconnects no agent.
C5_StopWithoutStartIsNoOp ==
  (/\ IsHandleEvent({"HangUp", "Detached"})
   /\ InactiveRows(pre.stream, lastEv.backend_id, lastEv.handle_id) # {}
   /\ ~HasStart(pre.stream[TargetRow(pre.stream, lastEv.backend_id,
                                     lastEv.handle_id)]))
  => /\ lastResult = "ok"
     /\ lastOut = <<>>
     /\ db.agent_connection = pre.agent_connection

IsOffline == lastEv.kind = "Status" /\ ~lastEv.online

ActiveOn(streams, backend_id) ==
  {i \in DOMAIN streams : /\ streams[i].backend_id = backend_id
                          /\ IsActive(streams[i])}

\* C7: a backend-offline event for backend B emits exactly one stream-update
\* notification per stream that was active on B, and no other one: none
\* twice, none for an inactive stream, none for a stream of another backend.
C7_OfflineNotifiesEachActiveStreamOnce ==
  IsOffline =>
    /\ Len(lastOut) = Cardinality(ActiveOn(pre.stream, lastEv.backend_id))
    /\ \A k \in 1..Len(lastOut) : lastOut[k].label = "rtc_stream.update"
    /\ {lastOut[k].stream : k \in 1..Len(lastOut)}
         = ActiveOn(pre.stream, lastEv.backend_id)

\* C7 witness: the backend went offline with an active and an inactive stream
\* on it while a stream of the other backend was active.
C7_Witness ==
  /\ IsOffline
  /\ Len(lastOut) = 1
  /\ \E i \in StreamIds : /\ pre.stream[i].backend_id = lastEv.backend_id
                          /\ ~IsActive(pre.stream[i])
  /\ \E i \in StreamIds : /\ pre.stream[i].backend_id # lastEv.backend_id
                          /\ IsActive(pre.stream[i])

\* C8: after a backend-offline event for backend B every stream that was
\* active on B is stopped in the database, its stop time being the time of
\* the handling, and B has no Backend row.
C8_OfflineStopsStreamsAndDeletesBackend ==
  IsOffline =>
    /\ \A i \in ActiveOn(pre.stream, lastEv.backend_id) :
         db.stream[i].time = <<pre.stream[i].time[1], lastEv.at>>
    /\ \A r \in db.janus_backend : r.id # lastEv.backend_id

(***************************************************************************)
(* Properties of the uploading of recordings (SpecUpload).                 *)
(***************************************************************************)
\* The last handled message is a vacuum request or an upload response.
IsUploadHandling == lastEv.kind \in {"Vacuum", "UploadStream"}

\* The rtcs of a room whose recording has one of the statuses.
RtcsWithStatus(d, room_id, statuses) ==
  {r \in RtcIds : /\ RtcRoom[r] = room_id
                  /\ IsSome(d.recording[r])
                  /\ Unwrap(d.recording[r]).status \in statuses}

\* The positions of the room.upload events of a room in a message stream.
UploadEvents(out, room_id) ==
  {i \in DOMAIN out : out[i].label = "room.upload" /\ out[i].room_id = room_id}

\* A Done response was handled for the rtc: its recording went from
\* in_progress to ready.
BecameReady(rtc_id) ==
  /\ rtc_id \in RtcsWithStatus(pre, RtcRoom[rtc_id], {"in_progress"})
  /\ rtc_id \in RtcsWithStatus(db, RtcRoom[rtc_id], {"ready"})

\* C9: while a recording of a room is still in progress after the handling
\* of upload responses, a Done response among them included, the handler
\* emits no room.upload event for that room.
C9_NoUploadEventWhileInProgress ==
  IsUploadHandling =>
    \A room_id \in RoomIds :
      RtcsWithStatus(db, room_id, {"in_progress"}) # {} =>
        UploadEvents(lastOut, room_id) = {}

\* C9 witness: a vacuum sweep got Done for rtc2 while rtc1 was ready and
\* rtc3 stays in progress: {Ready, Ready, InProgress}.
C9_Witness ==
  /\ lastEv.kind = "Vacuum"
  /\ lastResult = "ok"
  /\ BecameReady("rtc2")
  /\ RtcsWithStatus(pre, "roomA", {"ready"}) = {"rtc1"}
  /\ RtcsWithStatus(db, "roomA", {"in_progress"}) = {"rtc3"}
  /\ UploadEvents(lastOut, "roomA") = {}

\* C10: when the handling of upload responses makes the last in_progress
\* recording of a room terminal, by Done or by Missing, the handler emits
\* exactly one room.upload event for the room, with one entry for every rtc
\* of the room that has a terminal recording.
C10_LastTerminalEmitsOneUploadEvent ==
  IsUploadHandling =>
    \A room_id \in RoomIds :
      ( /\ RtcsWithStatus(pre, room_id, {"in_progress"}) # {}
        /\ RtcsWithStatus(db, room_id, {"in_progress"}) = {} ) =>
        /\ Cardinality(UploadEvents(lastOut, room_id)) = 1
        /\ \A i \in UploadEvents(lastOut, room_id) :
             /\ Len(lastOut[i].rtcs) =
                  Cardinality(RtcsWithStatus(db, room_id, {"ready", "missing"}))
             /\ {e.id : e \in Range(lastOut[i].rtcs)} =
                  RtcsWithStatus(db, room_id, {"ready", "missing"})

(***************************************************************************)
(* Properties of the transactions (SpecTxn).                               *)
(***************************************************************************)
\* Transaction::CreateHandle of the arguments of a request.
TransactionOf(args) ==
  [tag |-> "CreateHandle",
   data |-> [session_id |-> args.session_id, capacity |-> args.capacity,
             balancer_capacity |-> args.balancer_capacity,
             group |-> args.group, janus_url |-> args.janus_url]]

UploadEntries(out) ==
  UNION {Range(out[i].rtcs) : i \in {k \in DOMAIN out : out[k].label = "room.upload"}}

\* C11: in every room.upload event an entry carries a uri exactly when its
\* status is ready, and no entry is in progress; when the event of an
\* UploadStream transaction has the event built over a recording that is
\* still in progress, the handler fails with MessageBuildingFailed and
\* emits nothing.
C11_UriIffReady ==
  /\ \A e \in UploadEntries(lastOut) :
       /\ e.status \in {"ready", "missing"}
       /\ IsSome(e.uri) <=> e.status = "ready"
  /\ ( /\ lastEv.kind = "UploadStream"
       /\ lastEv.status = "200"
       /\ lastEv.state = "done"
       /\ RtcsWithStatus(db, RtcRoom[lastEv.rtc_id], {"in_progress"}) # {} )
     => (lastResult = "message_building_failed" /\ lastOut = <<>>)

\* C11 witness: an event went out with a ready entry that has a uri and a
\* missing entry that has none.
C11_Witness ==
  /\ \E e \in UploadEntries(lastOut) : e.status = "ready" /\ IsSome(e.uri)
  /\ \E e \in UploadEntries(lastOut) : e.status = "missing" /\ ~IsSome(e.uri)

\* The rtcs of the upload requests a handler sent.
RequestedRtcs(sent) == {sent[i].id : i \in DOMAIN sent}

C12_WitnessVacuum ==
  /\ lastEv.kind = "Vacuum"
  /\ lastEv.already_running \cap RequestedRtcs(lastSent) # {}
  /\ \E r \in RtcIds : BecameReady(r)

\* C13: the status of a recording only moves from in_progress to ready or
\* to missing: a recording that is ready or missing keeps its status under
\* every upload response, late and duplicated ones included.
C13_RecordingStatusIsFinal ==
  [][\A r \in RtcIds :
       ( /\ IsSome(db.recording[r])
         /\ Unwrap(db.recording[r]).status \in {"ready", "missing"} )
       => /\ IsSome(db'.recording[r])
          /\ Unwrap(db'.recording[r]).status = Unwrap(db.recording[r]).status]_vars

\* C14: an upload response that reports the recording missing marks the
\* recording missing, sends no new request for it, and is not an error of
\* the handler; a sweep sends requests for in_progress recordings only.
C14_MissingIsAStateNotAnError ==
  /\ (lastEv.kind = "UploadStream" /\ lastEv.status = "404")
     => /\ Unwrap(db.recording[lastEv.rtc_id]).status = "missing"
        /\ lastSent = <<>>
        /\ lastResult = "ok"
  /\ lastEv.kind = "Vacuum" =>
       \A r \in RequestedRtcs(lastSent) :
         Unwrap(pre.recording[r]).status = "in_progress"

(***************************************************************************)
(* Properties of the orphaned-room sweeps (SpecOrphan).                    *)
(***************************************************************************)
\* A sweep has just returned its notifications.
SweepReturned == lastEv.kind = "OrphanedRoomClose" /\ lastResult = "ok"

\* The rooms of the rows a sweep loaded that were closed when it read them.
ReadClosed(sweep) ==
  {id \in Range(sweep.timed_out) \cap DOMAIN sweep.read :
     is_closed(sweep.read[id], sweep.at)}

\* The positions of the close notifications of a room in a message stream.
CloseNotifications(out, room_id) ==
  {i \in DOMAIN out : out[i].label = "room.close" /\ out[i].room_id = room_id}

\* A sweep ran no closing task for a room it read as closed and returned no
\* notification for it.
NeverRecloses ==
  SweepReturned =>
    \A id \in ReadClosed(lastEv.sweep) :
      /\ id \notin Range(lastEv.sweep.closed)
      /\ CloseNotifications(lastOut, id) = {}

Tracked(d) == {o.id : o \in d.orphaned_room}

\* C16: when a sweep has returned, no room of a row it loaded (a row past
\* the deadline) has a tracking row any more, and every other tracking row
\* is still in place.
C16_TrackingRowsRemoved ==
  SweepReturned =>
    /\ Range(lastEv.sweep.timed_out) \cap Tracked(db) = {}
    /\ \A o \in pre.orphaned_room :
         o.id \notin Range(lastEv.sweep.timed_out) => o \in db.orphaned_room

\* C17: the time range of a room is modified at most once, only to set its
\* closing bound, and never once the room is closed, whatever the number of
\* sweeps and however the sweeps of two workers interleave.
C17_RoomTimeModifiedOnce ==
  [][\A r \in RoomIds :
       db'.room[r].time # db.room[r].time =>
         /\ db'.room[r].time[1] = db.room[r].time[1]
         /\ IsSome(db'.room[r].time[2])
         /\ ~db.room[r].timed_out
         /\ ~is_closed(db.room[r], now)]_vars

(***************************************************************************)
(* Properties of the responses to signalling requests (SpecResponse).      *)
(***************************************************************************)
\* The last step handled a response of the backend.
IsJanusResponse == lastEv.kind = "JanusResponse"

\* The last step handled the event of a CreateStream or of a ReadStream
\* transaction whose token decodes.
IsStreamEvent ==
  /\ IsJanusResponse
  /\ lastEv.envelope = "Event"
  /\ IsSome(lastEv.transaction)
  /\ Unwrap(lastEv.transaction).tag \in {"CreateStream", "ReadStream"}

\* The event has its data, the status "200" in it, and an answer.
IsAnswer ==
  /\ IsSome(lastEv.data)
  /\ Unwrap(lastEv.data).status = Some("200")
  /\ IsSome(lastEv.jsep)

\* The messages of the last step addressed to the agent of the transaction.
ToRequester ==
  SelectSeq(lastOut, LAMBDA m : m.label = "response"
                                /\ m.to = Unwrap(lastEv.transaction).reqp.agent_id)

\* C18: every failing event of a CreateStream or of a ReadStream transaction
\* (a status other than "200", or data, status or jsep missing) ends with
\* exactly one message, an error response to the agent of the transaction.
C18_FailingStreamEventAnswersRequester ==
  (IsStreamEvent /\ ~IsAnswer) =>
    /\ Len(lastOut) = 1
    /\ Len(ToRequester) = 1
    /\ lastOut[1].status # "ok"

\* C19: the event of a CreateStream or of a ReadStream transaction with
\* the status "200" and an answer ends with exactly one message, the OK
\* response with that answer to the agent of the transaction, and leaves
\* the database as it was; the ack of such a transaction yields no message.
C19_AnswerRelayedToRequester ==
  /\ (IsStreamEvent /\ IsAnswer) =>
       /\ lastOut = <<CreateResponse(lastEv.jsep,
                                     Unwrap(lastEv.transaction).reqp)>>
       /\ Len(ToRequester) = 1
       /\ lastOut[1].status = "ok"
       /\ lastResult = "ok"
       /\ db = pre
  /\ ( /\ IsJanusResponse
       /\ lastEv.envelope = "Ack"
       /\ IsSome(lastEv.transaction)
       /\ Unwrap(lastEv.transaction).tag \in {"CreateStream", "ReadStream"} )
     => (lastOut = <<>> /\ db = pre)

C19_Witness ==
  /\ IsStreamEvent /\ IsAnswer
  /\ Unwrap(lastEv.transaction).tag = "ReadStream"
  /\ Unwrap(lastEv.transaction).reqp.agent_id = "a2"
  /\ Len(lastOut) = 1 /\ lastOut[1].to = "a2"
  /\ lastOut[1].jsep = Some("answer1")

C19_WitnessAck ==
  /\ IsJanusResponse
  /\ lastEv.envelope = "Ack"
  /\ IsSome(lastEv.transaction)
  /\ Unwrap(lastEv.transaction).tag = "CreateStream"
  /\ lastOut = <<>>

\* C20: an Error envelope, of a session or of a handle, always ends as a
\* MessageParsingFailed error that is logged and reported; it yields no
\* message and leaves the database as it was, whatever its transaction.
C20_ErrorEnvelopeIsParsingFailure ==
  (IsJanusResponse /\ lastEv.envelope \in {"ErrorSession", "ErrorHandle"}) =>
    /\ lastResult = "message_parsing_failed"
    /\ lastOut = <<>>
    /\ lastSent = <<>>
    /\ db = pre

C20_Witness ==
  /\ IsJanusResponse
  /\ lastEv.envelope = "ErrorHandle"
  /\ IsSome(lastEv.transaction)
  /\ Unwrap(lastEv.transaction).tag = "CreateStream"
  /\ lastResult = "message_parsing_failed"
  /\ lastOut = <<>>

(***************************************************************************)
(* Properties of the bootstrap of a backend (SpecBoot).                    *)
(***************************************************************************)
\* The message is the success response to a request of the transaction.
IsSuccessOf(ev, tag) ==
  /\ ev.kind = "JanusResponse"
  /\ ev.envelope = "Success"
  /\ IsSome(ev.transaction)
  /\ Unwrap(ev.transaction).tag = tag

\* The requests registered by a step: those in flight after it that were
\* not in flight before it.
Registered(before, after) ==
  {r \in Range(after) : ~r.timed_out /\ r \notin Range(before)}

\* The CreateControlHandle request that answers a CreateSession success.
ControlHandleRequestFor(ev) ==
  create_control_handle_request(ev.backend_id, ev.data_id,
    Unwrap(ev.transaction).capacity, Unwrap(ev.transaction).balancer_capacity)

\* The warm-up task that a CreateSession success spawns.
WarmUpFor(ev) ==
  [backend_id |-> ev.backend_id, session_id |-> ev.data_id,
   pool_size |-> Unwrap(ev.transaction).capacity]

\* C21: the handling of a CreateSession success spawns the warm-up of the
\* pool as a background task and returns exactly one message, the
\* CreateControlHandle request for the new session with the capacity and
\* the balancer capacity of the transaction; a warm-up task that fails
\* leaves the requests in flight and the database as they were.
C21_SessionSuccessRequestsControlHandle ==
  [][ /\ IsSuccessOf(lastEv', "CreateSession") =>
           /\ lastOut' = <<ControlHandleRequestFor(lastEv')>>
           /\ WarmUpFor(lastEv') \in handle_pool'
           /\ \E r \in Range(issued') :
                r.payload = ControlHandleRequestFor(lastEv')
      /\ (lastEv'.kind = "WarmUp" /\ ~lastEv'.ok) =>
           /\ issued' = issued
           /\ db' = db
    ]_vars

C21_Witness ==
  /\ lastEv.kind = "WarmUp"
  /\ ~lastEv.ok
  /\ lastResult = "backend_initialization_failed"
  /\ \E r \in Range(issued) :
       r.payload = create_control_handle_request("b2", 72, Some(2), Some(1))

\* The row that a CreateControlHandle success writes.
BackendRowFor(ev) ==
  BackendRow(ev.backend_id, ev.data_id,
             Unwrap(Unwrap(ev.transaction).session_id),
             Unwrap(ev.transaction).capacity,
             Unwrap(ev.transaction).balancer_capacity)

\* C22: a row of the janus_backend table is written only by the handling
\* of a CreateControlHandle success, which upserts the row with the handle
\* id of the response and the session id and the capacities of the
\* transaction and returns no message; a CreateControlHandle request is
\* registered only by the handling of a CreateSession success, and a
\* CreateSession request only by the handling of an online status event.
C22_BackendRowOnlyAfterBootstrap ==
  [][ /\ \A row \in db'.janus_backend \ db.janus_backend :
           /\ IsSuccessOf(lastEv', "CreateControlHandle")
           /\ row = BackendRowFor(lastEv')
      /\ IsSuccessOf(lastEv', "CreateControlHandle") =>
           /\ BackendRowFor(lastEv') \in db'.janus_backend
           /\ lastOut' = <<>>
      /\ \A r \in Registered(issued, issued') :
           /\ r.payload.transaction.tag = "CreateControlHandle" =>
                /\ IsSuccessOf(lastEv', "CreateSession")
                /\ r.payload.to = lastEv'.backend_id
                /\ r.payload.transaction.session_id = Some(lastEv'.data_id)
           /\ r.payload.transaction.tag = "CreateSession" =>
                /\ lastEv'.kind = "Status"
                /\ lastEv'.online
                /\ r.payload.to = lastEv'.backend_id
    ]_vars

C22_Witness ==
  /\ IsSuccessOf(lastEv, "CreateControlHandle")
  /\ BackendRow("b2", 82, 72, Some(2), Some(1)) \in db.janus_backend
  /\ pre.janus_backend = {}
  /\ lastOut = <<>>

\* The payloads of the requests in flight.
Payloads(requests) == [i \in DOMAIN requests |-> requests[i].payload]

\* What the handling of the response yields for a request in time.
InTime(d, resp) ==
  IF resp.envelope = "Success" THEN handle_success(d, resp, TRUE)
  ELSE Spawning(handle_response_impl(d, resp), {})

C24_FreshTokenPerRequest ==
  [][ (lastEv.kind = "Response" /\ lastEv'.kind = "CreateHandle") =>
        lastOut'[1].transaction # lastEv.transaction
    ]_vars

(***************************************************************************)
(* Properties of the vacuum (SpecSystem).                                  *)
(***************************************************************************)
\* The last step handled a vacuum request of an authorized requester.
IsVacuumSweep == lastEv.kind = "Vacuum" /\ lastEv.authorized

\* The rooms the returned messages close.
ClosedRooms ==
  {RtcRoom[r] : r \in {x \in RtcIds :
     \E i \in DOMAIN lastOut : /\ lastOut[i].label = "room.close"
                               /\ lastOut[i].room_id = RtcRoom[x]}}

\* The rows of the sweep whose upload request was sent.
SentRows == {r \in Range(lastEv.rows) :
               \E i \in DOMAIN lastSent : lastSent[i].id = r}

\* The rows of the sweep whose upload request was issued and answered.
IssuedRows == {r \in SentRows : lastEv.janus[r] # "Error"}

\* The row fails: its room has no upload configuration, or the client of
\* its backend cannot be made, or its upload request fails.
RowFails(r) ==
  \/ upload_config(pre.room[RtcRoom[r]]).err # "ok"
  \/ lastEv.janus[r] \in {"ClientError", "Error"}

\* C25: in a sweep of the vacuum, the failure of a row neither discards
\* the room.close notifications of the rows before it nor keeps the rows
\* after it from being processed.
C25_VacuumFailureIsPerRoom ==
  IsVacuumSweep =>
    \A j \in DOMAIN lastEv.rows :
      RowFails(lastEv.rows[j]) =>
        /\ \A i \in 1..(j - 1) :
             ~RowFails(lastEv.rows[i]) => RtcRoom[lastEv.rows[i]] \in ClosedRooms
        /\ \A i \in (j + 1)..Len(lastEv.rows) :
             ~RowFails(lastEv.rows[i]) => lastEv.rows[i] \in SentRows

\* C26: in a sweep of the vacuum, the rooms with a room.close notification
\* are the rooms of the rows whose upload request was issued, whatever the
\* backend answered to it.
C26_CloseFollowsIssuedUpload ==
  IsVacuumSweep => ClosedRooms = {RtcRoom[r] : r \in IssuedRows}

C27_WitnessOrphan ==
  /\ lastEv.kind = "OrphanedRoomClose"
  /\ lastResult = "access_denied"
  /\ get_timed_out(db, now - OrphanedRoomTimeout) # <<>>
  /\ db = pre

(***************************************************************************)
(* The storage URI of a recording (SpecSystem).                            *)
(***************************************************************************)
\* "s3://<bucket>/<prefix><rtc_id>.source.webm", as the sequence of its
\* parts: the prefix is "<classroom_id>/" for an owned room of a classroom.
StorageUri(bucket, policy, classroom_id, rtc_id) ==
  <<"s3://", bucket, "/">>
  \o (IF policy = "Owned" /\ classroom_id # None
      THEN <<classroom_id[1], "/">> ELSE <<>>)
  \o <<rtc_id, ".source.webm">>

\* The event of an UploadStream transaction reports the upload of the
\* last recording of a room as done.
CompletesRoom ==
  /\ lastEv.kind = "UploadStream"
  /\ lastEv.status = "200"
  /\ lastEv.state = "done"
  /\ \A r \in RtcIds :
       RtcRoom[r] = RtcRoom[lastEv.rtc_id] =>
         /\ IsSome(db.recording[r])
         /\ Unwrap(db.recording[r]).status # "in_progress"

\* C28: the uri of every ready entry of a room.upload event is
\* "s3://<bucket>/<prefix><rtc_id>.source.webm" for the bucket of the
\* room's policy and audience, the prefix being "<classroom_id>/" exactly
\* for an owned room with a classroom; a room without sharing policy gets
\* no uri: the event that completes it fails with NotImplemented.
C28_StorageUriIsDeterministic ==
  /\ \A i \in DOMAIN lastOut :
       lastOut[i].label = "room.upload" =>
         LET room == db.room[lastOut[i].room_id]
         IN \A e \in Range(lastOut[i].rtcs) :
              e.status = "ready" =>
                /\ room.rtc_sharing_policy \in {"Shared", "Owned"}
                /\ e.uri = Some(StorageUri(
                     UploadConfigs[room.rtc_sharing_policy][room.audience].bucket,
                     room.rtc_sharing_policy, room.classroom_id, e.id))
  /\ (CompletesRoom
      /\ db.room[RtcRoom[lastEv.rtc_id]].rtc_sharing_policy = "None") =>
       /\ lastResult = "not_implemented"
       /\ lastOut = <<>>

C28_Witness ==
  \E i \in DOMAIN lastOut :
    /\ lastOut[i].label = "room.upload"
    /\ \E e \in Range(lastOut[i].rtcs) :
         e.uri = Some(<<"s3://", "origin.minigroup", "/", "cls", "/", "rtc1",
                        ".source.webm">>)

C28_WitnessShared ==
  /\ db.room["roomA"].classroom_id = Some("cls")
  /\ \E i \in DOMAIN lastOut :
       /\ lastOut[i].label = "room.upload"
       /\ \E e \in Range(lastOut[i].rtcs) :
            e.uri = Some(<<"s3://", "origin.webinar", "/", "rtc1",
                           ".source.webm">>)

C28_WitnessNone ==
  /\ CompletesRoom
  /\ db.room[RtcRoom[lastEv.rtc_id]].rtc_sharing_policy = "None"
  /\ lastResult = "not_implemented"

(***************************************************************************)
(* Racing deliveries for one handle (SpecRace).                            *)
(***************************************************************************)
\* Which rows have a start and which a stop.
Shape(streams) == [i \in DOMAIN streams |-> Len(streams[i].time)]

DeliveryOrders == {<<1, 2>>, <<2, 1>>}

\* The database after the events of the workers of `order` are handled
\* one after the other.
RECURSIVE Sequential(_, _, _)
Sequential(d, order, t) ==
  IF order = <<>> THEN d
  ELSE Sequential(handle_event_impl(d, deliveries[Head(order)].ev, t).db,
                  Tail(order), t)

BothDone ==
  /\ DOMAIN deliveries = Workers
  /\ \A w \in Workers : deliveries[w].pc = "done"

\* C29: when two racing deliveries for one (backend, handle) are both
\* handled, the streams are started and stopped as after handling the two
\* events one after the other in some order, no stream has a stop without
\* a start, and no stop lies before its start.
C29_RacingDeliveriesAreSerialized ==
  BothDone =>
    /\ \E order \in DeliveryOrders :
         Shape(db.stream) = Shape(Sequential(pre, order, now).stream)
    /\ \A i \in DOMAIN db.stream :
         HasStop(db.stream[i]) => db.stream[i].time[1] <= db.stream[i].time[2]

(***************************************************************************)
(* State changes and notifications of the inbound dispatch (SpecBoot).     *)
(***************************************************************************)
\* C30: a handler of the inbound dispatch (handle_response,
\* handle_status_event) that leaves the database different from the one it
\* started from returns at least one message for publishing.
C30_StateChangeIsNotified ==
  (lastEv.kind \notin {"none", "WarmUp", "Timeout"} /\ db # pre) =>
    Len(lastOut) >= 1

(***************************************************************************)
(* The request handlers of the agents (SpecEndpoint).                      *)
(***************************************************************************)
\* The room of the last request exists, and the request was handled within
\* its time: after its opening and not after its closing.
RoomExists == lastEv.payload.room_id \in DOMAIN db.room

RoomIsOpen ==
  LET time == db.room[lastEv.payload.room_id].time
  IN /\ time[1] # None
     /\ time[1][1] < lastEv.at
     /\ time[2] # None => time[2][1] >= lastEv.at

Refused(kind, status) ==
  /\ lastResult = kind
  /\ ErrorStatus[kind] = status
  /\ lastOut = <<>>

\* C31: agent.list answers 404 room_not_found for a room that does not
\* exist, else 404 room_closed for a room that is not open (whatever the
\* authorizer says), else 403 access_denied for a requester that is not
\* authorized, and only else 200 with agents of the requested room alone,
\* at most MAX_LIMIT of them whatever the limit of the request.
C31_AgentListChecksInOrder ==
  lastEv.kind = "agent.list" =>
    /\ ~RoomExists => Refused("room_not_found", 404)
    /\ (RoomExists /\ ~RoomIsOpen) => Refused("room_closed", 404)
    /\ (RoomExists /\ RoomIsOpen /\ ~lastEv.authorized) =>
         Refused("access_denied", 403)
    /\ (RoomExists /\ RoomIsOpen /\ lastEv.authorized) =>
         /\ lastResult = "ok"
         /\ Len(lastOut) = 1
         /\ lastOut[1].label = "response"
         /\ lastOut[1].status = 200
         /\ \A r \in Range(lastOut[1].payload) :
              r \in db.agent /\ r.room_id = lastEv.payload.room_id
         /\ Len(lastOut[1].payload) <= 25

\* A closed room refuses an authorized requester.
C31_Witness ==
  /\ lastEv.kind = "agent.list"
  /\ RoomExists /\ ~RoomIsOpen /\ lastEv.authorized
  /\ lastEv.at > 0
  /\ lastResult = "room_closed"

\* A full page for a request of more.
C31_WitnessPage ==
  /\ lastEv.kind = "agent.list"
  /\ lastEv.payload.limit = Some(MAX_LIMIT + 1)
  /\ lastResult = "ok"
  /\ Len(lastOut[1].payload) = 25

\* The agent has a row in the room of the last request.
Present(agent_id) ==
  [agent |-> agent_id, room_id |-> lastEv.payload.room_id] \in db.agent

\* C32: message.unicast answers 404 room_not_found for a room that does not
\* exist and 404 agent_not_entered_the_room when the sender or the receiver
\* has no row in the open room; it forwards only for an open room with both
\* present, and then emits exactly one request, addressed to the receiver,
\* with the data of the payload; every error emits nothing.
C32_UnicastForwardsOnlyBetweenPresentAgents ==
  lastEv.kind = "message.unicast" =>
    /\ ~RoomExists => Refused("room_not_found", 404)
    /\ (/\ RoomExists /\ RoomIsOpen
        /\ ~(Present(lastEv.reqp.agent_id) /\ Present(lastEv.payload.agent_id)))
         => Refused("agent_not_entered_the_room", 404)
    /\ lastResult # "ok" => lastOut = <<>>
    /\ lastResult = "ok" <=>
         /\ RoomExists /\ RoomIsOpen
         /\ Present(lastEv.reqp.agent_id)
         /\ Present(lastEv.payload.agent_id)
    /\ lastResult = "ok" =>
         /\ Len(lastOut) = 1
         /\ lastOut[1].label = "request"
         /\ lastOut[1].to = lastEv.payload.agent_id
         /\ lastOut[1].payload = lastEv.payload.data

\* A relayed request.
C32_Witness ==
  /\ lastEv.kind = "message.unicast"
  /\ lastResult = "ok"
  /\ lastOut[1].to = 2
  /\ lastOut[1].payload = "data2"

\* The receiver alone is absent.
C32_WitnessReceiver ==
  /\ lastEv.kind = "message.unicast"
  /\ RoomExists /\ RoomIsOpen
  /\ Present(lastEv.reqp.agent_id)
  /\ ~Present(lastEv.payload.agent_id)
  /\ lastResult = "agent_not_entered_the_room"

\* C33: message.broadcast in an existing open room with the sender present
\* emits exactly two messages, the response 200 to the sender and one
\* message.broadcast event on rooms/<room_id>/events with the data of the
\* payload; for a room that does not exist (room_not_found) and for a
\* sender without a row in the room (agent_not_entered_the_room) it emits
\* nothing.
C33_BroadcastRespondsAndNotifies ==
  lastEv.kind = "message.broadcast" =>
    /\ ~RoomExists => Refused("room_not_found", 404)
    /\ (RoomExists /\ RoomIsOpen /\ ~Present(lastEv.reqp.agent_id)) =>
         Refused("agent_not_entered_the_room", 404)
    /\ (RoomExists /\ RoomIsOpen /\ Present(lastEv.reqp.agent_id)) =>
         /\ lastResult = "ok"
         /\ Len(lastOut) = 2
         /\ lastOut[1].label = "response"
         /\ lastOut[1].status = 200
         /\ lastOut[1].to = lastEv.reqp.agent_id
         /\ lastOut[2].label = "message.broadcast"
         /\ lastOut[2].topic = <<"rooms/", lastEv.payload.room_id, "/events">>
         /\ lastOut[2].payload = lastEv.payload.data

C33_Witness ==
  /\ lastEv.kind = "message.broadcast"
  /\ lastResult = "ok"
  /\ lastOut[2].topic = <<"rooms/", "roomB", "/events">>
  /\ lastOut[2].payload = "data1"

\* The sender is in another room.
C33_WitnessAbsent ==
  /\ lastEv.kind = "message.broadcast"
  /\ lastEv.payload.room_id = "roomB"
  /\ lastEv.reqp.agent_id = 1
  /\ lastResult = "agent_not_entered_the_room"

\* C40: the correlation data of a relayed request decodes to the properties
\* of the original request; the callback for correlation data that comes
\* back as sent emits exactly one response, to the sender of the original
\* request, with the original correlation data and the status and payload
\* of the receiver's response; for correlation data that does not come
\* back as sent it fails with message_parsing_failed and emits nothing.
C40_RelayRoundTrip ==
  /\ (lastEv.kind = "message.unicast" /\ lastResult = "ok") =>
       properties_from_base64(lastOut[1].correlation_data) = Some(lastEv.reqp)
  /\ (lastEv.kind = "message.callback" /\ lastEv.echo = "echoed") =>
       /\ lastResult = "ok"
       /\ Len(lastOut) = 1
       /\ lastOut[1].label = "response"
       /\ lastOut[1].to = lastEv.origin.agent_id
       /\ lastOut[1].correlation_data = lastEv.origin.correlation_data
       /\ lastOut[1].status = lastEv.respp.status
       /\ lastOut[1].payload = lastEv.payload
  /\ (lastEv.kind = "message.callback" /\ lastEv.echo # "echoed") =>
       /\ lastResult = "message_parsing_failed"
       /\ lastOut = <<>>

\* The response of the receiver relayed to the sender whose correlation
\* data holds a quote.
C40_Witness ==
  /\ lastEv.kind = "message.callback"
  /\ lastEv.echo = "echoed"
  /\ lastEv.respp.status = 404
  /\ lastOut # <<>>
  /\ lastOut[1].to = Guest
  /\ lastOut[1].correlation_data = <<34, 50>>

C40_WitnessCut ==
  /\ lastEv.kind = "message.callback"
  /\ lastEv.echo = "cut"
  /\ lastResult = "message_parsing_failed"

(***************************************************************************)
(* The disconnection of the agents of a stopped stream (SpecRace).         *)
(***************************************************************************)
\* C34: a HangUp or Detached event that marks a started stream stopped
\* leaves no agent connection of the stream's room, also when the room's
\* time is over.
C34_StopDisconnectsTheRoom ==
  [][\A i \in StreamIds :
       (/\ lastEv'.kind \in {"HangUp", "Detached"}
        /\ HasStart(db.stream[i])
        /\ ~HasStop(db.stream[i])
        /\ HasStop(db'.stream[i])) =>
         \A c \in db'.agent_connection :
           c.room_id # RtcRoom[db.stream[i].rtc_id]]_vars

(***************************************************************************)
(* The transaction of the offline branch (SpecOffline).                    *)
(***************************************************************************)
\* C35: an offline status event whose transaction meets a failing
\* statement (the listing, the disconnection or the deletion) leaves the
\* database as it was, the row of the backend and the agent connections
\* included, and emits nothing; when no statement fails the row of the
\* backend and the agent connections of the backend are gone together.
C35_OfflineTransactionIsAtomic ==
  IsOffline =>
    /\ lastEv.failure # "none" =>
         /\ db = pre
         /\ lastOut = <<>>
         /\ lastResult # "ok"
    /\ lastEv.failure = "none" =>
         /\ \A r \in db.janus_backend : r.id # lastEv.backend_id
         /\ \A c \in db.agent_connection : c.backend_id # lastEv.backend_id

\* The deletion fails for a backend with a row, agent connections and an
\* active stream.
C35_Witness ==
  /\ IsOffline
  /\ lastEv.failure = "delete"
  /\ \E r \in db.janus_backend : r.id = lastEv.backend_id
  /\ \E c \in db.agent_connection : c.backend_id = lastEv.backend_id
  /\ \E i \in DOMAIN db.stream :
       db.stream[i].backend_id = lastEv.backend_id /\ IsActive(db.stream[i])

(***************************************************************************)
(* The messages the dispatch ignores (SpecDispatch).                       *)
(***************************************************************************)
\* The last handler changed nothing in the database and returned nothing.
NoEffect == db = pre /\ lastOut = <<>> /\ lastSent = <<>>

\* The transactions each envelope has an arm for.
HandledBy ==
  [Success |-> {"CreateSession", "CreateControlHandle", "CreatePoolHandle"},
   Ack |-> {"CreateStream", "Trickle"},
   Event |-> {"CreateStream", "ReadStream", "UploadStream"}]

IsTokenResponse ==
  /\ lastEv.kind = "JanusResponse"
  /\ lastEv.envelope \in DOMAIN HandledBy

\* C36: a Success, Ack or Event response whose token does not decode fails
\* with message_parsing_failed, and one whose transaction has no arm for
\* its envelope succeeds; a Media, Timeout or SlowLink event succeeds; none
\* of them changes the database or returns a message, and none is handled
\* again.
C36_IgnoredMessagesHaveNoEffect ==
  /\ (IsTokenResponse /\ lastEv.transaction = None) =>
       lastResult = "message_parsing_failed" /\ NoEffect
  /\ (/\ IsTokenResponse
      /\ lastEv.transaction # None
      /\ lastEv.transaction[1].tag \notin HandledBy[lastEv.envelope]) =>
       lastResult = "ok" /\ NoEffect
  /\ lastEv.kind \in {"Media", "Timeout", "SlowLink"} =>
       lastResult = "ok" /\ NoEffect

\* A Success response to a signalling request after a stream was started.
C36_Witness ==
  /\ IsTokenResponse
  /\ lastEv.envelope = "Success"
  /\ lastEv.transaction # None
  /\ lastEv.transaction[1].tag = "Trickle"
  /\ \E i \in DOMAIN db.stream : HasStart(db.stream[i])
  /\ NoEffect

C36_WitnessToken ==
  /\ IsTokenResponse
  /\ lastEv.envelope = "Event"
  /\ lastEv.transaction = None
  /\ lastResult = "message_parsing_failed"

C36_WitnessSlowLink ==
  /\ lastEv.kind = "SlowLink"
  /\ \E i \in DOMAIN db.stream : HasStart(db.stream[i])
  /\ NoEffect

\* The room.upload events the two confirmations emitted between them.
RoomUploads ==
  {p \in Workers \X {1} :
     /\ Len(deliveries[p[1]].out) >= p[2]
     /\ deliveries[p[1]].out[p[2]].label = "room.upload"}

BothConfirmed == \A w \in Workers : deliveries[w].pc = "done"

\* C37: when the Done responses of the last two recordings in progress of a
\* room are handled concurrently, the two handlers emit exactly one
\* room.upload event between them: never two, and one once both recordings
\* are ready.
C37_ConcurrentConfirmationsEmitOnce ==
  BothConfirmed => Cardinality(RoomUploads) = 1

\* The backends that have a row.
BackendIds(d) == {row.id : row \in d.janus_backend}

\* The last message handled is the offline status of a backend.
WentOffline(ev) == ev.kind = "Status" /\ ~ev.online

\* The message is the success response of the CreateControlHandle request
\* to the backend.
ControlHandleCreated(ev, backend_id) ==
  /\ ev.kind = "JanusResponse"
  /\ ev.envelope = "Success"
  /\ ev.transaction[1].tag = "CreateControlHandle"
  /\ ev.backend_id = backend_id

\* C38: once the offline status of a backend has been handled the backend
\* has no row until a new exchange has taken place; in particular the success
\* response of a CreateControlHandle request issued before the offline status
\* and delivered after it does not create the row again.
C38_LateControlHandleDoesNotRestoreBackend ==
  [][(WentOffline(lastEv) /\ ControlHandleCreated(lastEv', lastEv.backend_id))
       => lastEv.backend_id \notin BackendIds(db')]_vars

\* The room.close notifications of the last response for the room.
SweepCloses(room_id) ==
  {i \in DOMAIN lastOut :
     /\ lastOut[i].label = "room.close"
     /\ lastOut[i].room_id = room_id}

\* The rooms for which the last sweep issued an upload request.
SweptRooms == {RtcRoom[lastSent[i].id] : i \in DOMAIN lastSent}

\* The agents of every room of an upload request of the last sweep are gone.
AgentsLeaveBeforeUpload ==
  \A room_id \in SweptRooms : \A a \in db.agent : a.room_id # room_id

\* C39: one vacuum sweep emits at most one room.close notification per room,
\* also for a room with several recordings in progress, and the agents of a
\* room are removed from it by the time its upload request has been issued.
C39_OneCloseNotificationPerSweptRoom ==
  lastEv.kind = "Vacuum" =>
    /\ \A room_id \in RoomIds : Cardinality(SweepCloses(room_id)) <= 1
    /\ AgentsLeaveBeforeUpload

====
